---- MODULE Spec2Model ----
(***************************************************************************)
(* A model of the CBOR Builder of qmuntal/cbor.                            *)
(*                                                                         *)
(* The Builder is a record with the fields of the Go struct.  Every        *)
(* method is an operator from a Builder to the Builder it leaves behind;   *)
(* callbacks (BuilderContinuation) are finite sequences of calls, run      *)
(* synchronously inside the method that receives them, as in the source.   *)
(* A Go run-time panic is the extra field "panic": once it is set nothing  *)
(* else runs.                                                              *)
(*                                                                         *)
(* Integers of a fixed width are big-endian tuples of bytes, so that the   *)
(* 64-bit cases are computed at their real width.                          *)
(*                                                                         *)
(* The repository holds three revisions of the Builder.  Unsuffixed names  *)
(* model src/unnamed/part_000; the suffix _p1 marks src/unnamed/part_001   *)
(* and the suffix _b marks src/builder.go, where they differ.              *)
(*                                                                         *)
(* Specifications: SpecInt applies one integer operation to a fresh        *)
(* Builder, SpecStr one of AddBytes and AddString, SpecUnknown compares    *)
(* AddBytesUnknownLength with AddBytes, SpecAdd appends to buffers of any  *)
(* length, of which it keeps the length only, SpecMap builds one map in    *)
(* either revision under each sorting mode, SpecFloat applies AddFloat32   *)
(* or AddFloat64 once under each combination of the float modes,           *)
(* SpecWriter the fixed-width float writers of each revision, SpecRaw      *)
(* AddRawBytes and Marshal of a RawBytes value, SpecLayouts makes the same *)
(* calls on a Builder of part_000 and one of part_001, SpecDeferred builds *)
(* a map whose keys and values are byte strings of deferred length, and    *)
(* Spec is a caller that makes a few calls on one Builder and builds a map *)
(* entry by entry.                                                         *)
(***************************************************************************)
EXTENDS Integers, Sequences, FiniteSets, TLC

VARIABLES b, pending, lastOp, in, phase, ref, calls

vars == <<b, pending, lastOp, in, phase, ref, calls>>

(***************************************************************************)
(* Constants of the source                                                 *)
(***************************************************************************)
cborFalse == 244
cborTrue == 245
cborNil == 246

cborTypePositiveInt == 0
cborTypeNegativeInt == 32
cborTypeByteString == 64
cborTypeTextString == 96
cborTypeArray == 128
cborTypeMap == 160
cborTypeTag == 192
cborTypePrimitives == 224

ModeSortLengthFirst == 0
ModeSortBytewiseLexical == 1
ModeSortNone == 2

ModeNaN7e00 == 0
ModeNaNNone == 1

ModeInfFloat16 == 0
ModeInfNone == 1

ModeFloat16 == 0
ModeFloatNone == 1

cborNaN == <<249, 126, 0>>
cborPositiveInfinity == <<249, 124, 0>>
cborNegativeInfinity == <<249, 252, 0>>

NoError == "nil"
ErrLengthOverflow == "cbor: length overflow"
ErrCaller == "caller error"

NoPanic == "none"
PanicIndex == "index out of range"
PanicSlice == "slice bounds out of range"
PanicGrowslice == "growslice: len out of range"

\* the largest value of Go's int on the platforms whose lengths this
\* model can count
MaxInt == 2147483647

(***************************************************************************)
(* Bytes and fixed-width integers                                          *)
(***************************************************************************)
RECURSIVE BitOr(_, _)
\* x | y on bytes
BitOr(x, y) ==
    IF x = 0 THEN y
    ELSE IF y = 0 THEN x
    ELSE (IF x % 2 = 1 \/ y % 2 = 1 THEN 1 ELSE 0)
         + 2 * BitOr(x \div 2, y \div 2)

\* the w-byte integers 0 and 1
ZeroBytes(w) == [i \in 1..w |-> 0]
OneBytes(w) == [i \in 1..w |-> IF i = w THEN 1 ELSE 0]

\* byte(v >> s), for s a multiple of 8
ByteShr(v, s) == v[Len(v) - (s \div 8)]

\* uintN(v) for a narrower N: the low w bytes
Trunc(v, w) == SubSeq(v, Len(v) - w + 1, Len(v))

\* v <= math.MaxUint8, v <= math.MaxUint16, v <= math.MaxUint32
LeMaxUint8(v) == \A i \in 1..(Len(v) - 1) : v[i] = 0
LeMaxUint16(v) == \A i \in 1..(Len(v) - 2) : v[i] = 0
LeMaxUint32(v) == \A i \in 1..(Len(v) - 4) : v[i] = 0

\* v <= 23
Le23(v) == LeMaxUint8(v) /\ v[Len(v)] <= 23

\* v >= 0 for a signed v (two's complement)
NonNegative(v) == v[1] < 128

RECURSIVE SubFrom(_, _, _, _)
SubFrom(x, y, i, borrow) ==
    IF i = 0 THEN x
    ELSE LET d == x[i] - y[i] - borrow
         IN  SubFrom([x EXCEPT ![i] = (d + 256) % 256], y, i - 1,
                     IF d < 0 THEN 1 ELSE 0)

\* x - y at the width of x, wrapping
SubBytes(x, y) == SubFrom(x, y, Len(x), 0)

\* v*(-1) at the width of v, wrapping
MulMinusOne(v) == SubBytes(ZeroBytes(Len(v)), v)

\* NegArg without the "- 1"
NegArg_noDecrement(v) == MulMinusOne(v)

\* v*(-1) - 1 at the width of v, wrapping
NegArg(v) == SubBytes(MulMinusOne(v), OneBytes(Len(v)))

\* uint64(n) for a length n of the model (n < 2^31)
Uint64Of(n) ==
    [i \in 1..8 |-> IF i <= 4 THEN 0
                    ELSE (n \div (256 ^ (8 - i))) % 256]

(***************************************************************************)
(* The Builder                                                             *)
(***************************************************************************)
\* NewBuilder(buffer) with the given sort mode set; the other modes have
\* the zero value of their type
NewBuilder(buffer, mode) ==
    [ModeNaN |-> ModeNaN7e00, ModeInf |-> ModeInfFloat16,
     ModeFloat |-> ModeFloat16, ModeSort |-> mode, err |-> NoError,
     result |-> buffer, offsets |-> << >>, tmp |-> << >>, mapSize |-> 0,
     panic |-> NoPanic]

SetError(bb, e) == IF bb.panic # NoPanic THEN bb ELSE [bb EXCEPT !.err = e]

\* what Bytes returns: the bytes and the error
Bytes(bb) ==
    IF bb.err # NoError THEN [bytes |-> << >>, isNil |-> TRUE, err |-> bb.err]
    ELSE [bytes |-> bb.result, isNil |-> FALSE, err |-> NoError]

BuilderLen(bb) == Len(bb.result)

\* the int sum x + y wraps below y, for lengths x and y
SumWraps(x, y) == y > MaxInt - x

\* when the sum of the lengths wraps the error is stored and, there being
\* no return, append runs and panics on the length it cannot represent
add(bb, bytes) ==
    IF bb.panic # NoPanic THEN bb
    ELSE IF bb.err # NoError THEN bb
    ELSE IF SumWraps(Len(bb.result), Len(bytes))
    THEN [bb EXCEPT !.err = ErrLengthOverflow, !.panic = PanicGrowslice]
    ELSE [bb EXCEPT !.result = @ \o bytes]

addUint8(bb, t, v) ==
    IF v[1] <= 23 THEN add(bb, <<BitOr(t, v[1])>>)
    ELSE add(bb, <<BitOr(t, 24), v[1]>>)

addUint16(bb, t, v) ==
    IF LeMaxUint8(v) THEN addUint8(bb, t, Trunc(v, 1))
    ELSE add(bb, <<BitOr(t, 25), ByteShr(v, 8), ByteShr(v, 0)>>)

addUint32(bb, t, v) ==
    IF LeMaxUint8(v) THEN addUint8(bb, t, Trunc(v, 1))
    ELSE IF LeMaxUint16(v) THEN addUint16(bb, t, Trunc(v, 2))
    ELSE add(bb, <<BitOr(t, 26), ByteShr(v, 24), ByteShr(v, 16),
                   ByteShr(v, 8), ByteShr(v, 0)>>)

addUint64(bb, t, v) ==
    IF LeMaxUint8(v) THEN addUint8(bb, t, Trunc(v, 1))
    ELSE IF LeMaxUint16(v) THEN addUint16(bb, t, Trunc(v, 2))
    ELSE IF LeMaxUint32(v) THEN addUint32(bb, t, Trunc(v, 4))
    ELSE add(bb, <<BitOr(t, 27),
                   ByteShr(v, 56), ByteShr(v, 48), ByteShr(v, 40),
                   ByteShr(v, 32), ByteShr(v, 24), ByteShr(v, 16),
                   ByteShr(v, 8), ByteShr(v, 0)>>)

AddUint8(bb, v) == addUint8(bb, cborTypePositiveInt, v)
AddUint16(bb, v) == addUint16(bb, cborTypePositiveInt, v)
AddUint32(bb, v) == addUint32(bb, cborTypePositiveInt, v)
AddUint64(bb, v) == addUint64(bb, cborTypePositiveInt, v)
AddUint(bb, v) == addUint64(bb, cborTypePositiveInt, v)

AddInt8(bb, v) ==
    IF NonNegative(v) THEN AddUint8(bb, v)
    ELSE addUint8(bb, cborTypeNegativeInt, NegArg(v))

AddInt16(bb, v) ==
    IF NonNegative(v) THEN AddUint16(bb, v)
    ELSE addUint16(bb, cborTypeNegativeInt, NegArg(v))

AddInt32(bb, v) ==
    IF NonNegative(v) THEN AddUint32(bb, v)
    ELSE addUint32(bb, cborTypeNegativeInt, NegArg(v))

AddInt64(bb, v) ==
    IF NonNegative(v) THEN AddUint64(bb, v)
    ELSE addUint64(bb, cborTypeNegativeInt, NegArg(v))

AddInt(bb, v) == AddInt64(bb, v)

AddTag(bb, number) == addUint64(bb, cborTypeTag, number)

(***************************************************************************)
(* The header writers of src/unnamed/part_001                              *)
(***************************************************************************)
addUint8_p1(bb, t, v) ==
    IF v[1] <= 23 THEN add(bb, <<BitOr(t, v[1])>>)
    ELSE add(bb, <<BitOr(t, 24), v[1]>>)

addUint16_p1(bb, t, v) ==
    IF Le23(v) THEN add(bb, <<BitOr(t, ByteShr(v, 0))>>)
    ELSE add(bb, <<BitOr(t, 25), ByteShr(v, 8), ByteShr(v, 0)>>)

addUint32_p1(bb, t, v) ==
    IF Le23(v) THEN add(bb, <<BitOr(t, ByteShr(v, 0))>>)
    ELSE add(bb, <<BitOr(t, 26), ByteShr(v, 24), ByteShr(v, 16),
                   ByteShr(v, 8), ByteShr(v, 0)>>)

addUint64_p1(bb, t, v) ==
    IF Le23(v) THEN add(bb, <<BitOr(t, ByteShr(v, 0))>>)
    ELSE add(bb, <<BitOr(t, 27),
                   ByteShr(v, 56), ByteShr(v, 48), ByteShr(v, 40),
                   ByteShr(v, 32), ByteShr(v, 24), ByteShr(v, 16),
                   ByteShr(v, 8), ByteShr(v, 0)>>)

addUint_p1(bb, t, v) ==
    IF LeMaxUint8(v) THEN addUint8_p1(bb, t, Trunc(v, 1))
    ELSE IF LeMaxUint16(v) THEN addUint16_p1(bb, t, Trunc(v, 2))
    ELSE IF LeMaxUint32(v) THEN addUint32_p1(bb, t, Trunc(v, 4))
    ELSE addUint64_p1(bb, t, v)

AddUint8_p1(bb, v) == addUint8_p1(bb, cborTypePositiveInt, v)
AddUint16_p1(bb, v) == addUint16_p1(bb, cborTypePositiveInt, v)
AddUint32_p1(bb, v) == addUint32_p1(bb, cborTypePositiveInt, v)
AddUint64_p1(bb, v) == addUint64_p1(bb, cborTypePositiveInt, v)
AddUint_p1(bb, v) == addUint_p1(bb, cborTypePositiveInt, v)
AddTag_p1(bb, number) == addUint_p1(bb, cborTypeTag, number)

(***************************************************************************)
(* Scalars, byte strings and text strings                                  *)
(***************************************************************************)
\* a Go []byte: nil or a (possibly empty) sequence of bytes
NilSlice == [isNil |-> TRUE, data |-> << >>]
Slice(data) == [isNil |-> FALSE, data |-> data]

AddRawBytes(bb, v) == add(bb, v)

AddBool(bb, v) == add(bb, <<IF v THEN cborTrue ELSE cborFalse>>)

AddNil(bb) == add(bb, <<cborNil>>)

AddBytes(bb, v) ==
    IF v.isNil THEN add(bb, <<cborNil>>)
    ELSE IF Len(v.data) = 0 THEN add(bb, <<cborTypeByteString>>)
    ELSE add(addUint64(bb, cborTypeByteString, Uint64Of(Len(v.data))), v.data)

\* AddString with the bytes of the string last to first
AddString_reversed(bb, v) ==
    IF Len(v) = 0 THEN add(bb, <<cborTypeTextString>>)
    ELSE add(addUint64(bb, cborTypeTextString, Uint64Of(Len(v))),
             [i \in 1..Len(v) |-> v[Len(v) + 1 - i]])

\* v is the string's bytes
AddString(bb, v) ==
    IF Len(v) = 0 THEN add(bb, <<cborTypeTextString>>)
    ELSE add(addUint64(bb, cborTypeTextString, Uint64Of(Len(v))), v)

\* src/builder.go: addUint8 leaves out the byte that follows the header
addUint8_b(bb, t, v) ==
    IF v[1] <= 23 THEN add(bb, <<BitOr(t, v[1])>>)
    ELSE add(bb, <<BitOr(t, 24)>>)

\* src/builder.go: addUint16, addUint32 and addUint64 read as in part_001
addUint_b(bb, t, v) ==
    IF LeMaxUint8(v) THEN addUint8_b(bb, t, Trunc(v, 1))
    ELSE IF LeMaxUint16(v) THEN addUint16_p1(bb, t, Trunc(v, 2))
    ELSE IF LeMaxUint32(v) THEN addUint32_p1(bb, t, Trunc(v, 4))
    ELSE addUint64_p1(bb, t, v)

\* src/builder.go
AddBytes_b(bb, v) ==
    IF v.isNil THEN add(bb, <<cborNil>>)
    ELSE IF Len(v.data) = 0 THEN add(bb, <<cborTypeByteString>>)
    ELSE add(addUint_b(bb, cborTypeByteString, Uint64Of(Len(v.data))), v.data)

\* src/builder.go
AddString_b(bb, v) ==
    IF Len(v) = 0 THEN add(bb, <<cborTypeByteString>>)
    ELSE add(addUint_b(bb, cborTypeTextString, Uint64Of(Len(v))), v)

(***************************************************************************)
(* Floating point.  A float32 is the record of the fields of its bits      *)
(* (sign, exp of 8 bits, coef of 23 bits); a float64 has sign, exp of 11   *)
(* bits and its 52 bits of significand as hi (the upper 23) and lo (the    *)
(* lower 29); a float16.Float16 has sign, exp of 5 bits and coef of 10.    *)
(***************************************************************************)
Float16(sign, exp, coef) == [sign |-> sign, exp |-> exp, coef |-> coef]
Float32(sign, exp, coef) == [sign |-> sign, exp |-> exp, coef |-> coef]
Float64(sign, exp, hi, lo) ==
    [sign |-> sign, exp |-> exp, hi |-> hi, lo |-> lo]

\* math.IsNaN(float64(v)) and math.IsInf(float64(v), 0) for a float32 v
IsNaN32(v) == v.exp = 255 /\ v.coef # 0
IsInf32(v) == v.exp = 255 /\ v.coef = 0

\* IsNaN64 that looks at the upper bits of the significand only
IsNaN64_upperBits(v) == v.exp = 2047 /\ v.hi # 0

\* math.IsNaN(v) and math.IsInf(v, 0) for a float64 v
IsNaN64(v) == v.exp = 2047 /\ (v.hi # 0 \/ v.lo # 0)
IsInf64(v) == v.exp = 2047 /\ v.hi = 0 /\ v.lo = 0

\* v > 0 for an infinity v
Positive(v) == v.sign = 0

\* a == b for two float32: no NaN equals anything, the two zeros are equal
Eq32(x, y) ==
    /\ ~IsNaN32(x)
    /\ ~IsNaN32(y)
    /\ \/ x = y
       \/ (x.exp = 0 /\ x.coef = 0 /\ y.exp = 0 /\ y.coef = 0)

\* a == b for two float64
Eq64(x, y) ==
    /\ ~IsNaN64(x)
    /\ ~IsNaN64(y)
    /\ \/ x = y
       \/ /\ x.exp = 0 /\ x.hi = 0 /\ x.lo = 0
          /\ y.exp = 0 /\ y.hi = 0 /\ y.lo = 0

addFloat16(bb, v) ==
    add(bb, <<BitOr(cborTypePrimitives, 25),
              v.sign * 128 + v.exp * 4 + v.coef \div 256,
              v.coef % 256>>)

addFloat32(bb, v) ==
    add(bb, <<BitOr(cborTypePrimitives, 26),
              v.sign * 128 + v.exp \div 2,
              (v.exp % 2) * 128 + v.coef \div 65536,
              (v.coef \div 256) % 256,
              v.coef % 256>>)

addFloat64(bb, v) ==
    add(bb, <<BitOr(cborTypePrimitives, 27),
              v.sign * 128 + v.exp \div 16,
              (v.exp % 16) * 16 + v.hi \div 524288,
              (v.hi \div 2048) % 256,
              (v.hi \div 8) % 256,
              (v.hi % 8) * 32 + v.lo \div 16777216,
              (v.lo \div 65536) % 256,
              (v.lo \div 256) % 256,
              v.lo % 256>>)

\* src/unnamed/part_001: the fifth byte is byte(32), not byte(f>>32)
addFloat64_p1(bb, v) ==
    add(bb, <<BitOr(cborTypePrimitives, 27),
              v.sign * 128 + v.exp \div 16,
              (v.exp % 16) * 16 + v.hi \div 524288,
              (v.hi \div 2048) % 256,
              32,
              (v.hi % 8) * 32 + v.lo \div 16777216,
              (v.lo \div 65536) % 256,
              (v.lo \div 256) % 256,
              v.lo % 256>>)

\* src/builder.go: the same text as src/unnamed/part_001
addFloat64_b(bb, v) ==
    add(bb, <<BitOr(cborTypePrimitives, 27),
              v.sign * 128 + v.exp \div 16,
              (v.exp % 16) * 16 + v.hi \div 524288,
              (v.hi \div 2048) % 256,
              32,
              (v.hi % 8) * 32 + v.lo \div 16777216,
              (v.lo \div 65536) % 256,
              (v.lo \div 256) % 256,
              v.lo % 256>>)

\* the position of the highest 1 bit of n, 0 < n < 2^23
TopBit(n) == CHOOSE p \in 0..22 : 2 ^ p <= n /\ n < 2 ^ (p + 1)

\* float32(v) for a float64 v: IEEE 754 round to nearest, ties to even
Float32Of64(v) ==
    IF v.exp = 2047
    THEN IF v.hi = 0 /\ v.lo = 0 THEN Float32(v.sign, 255, 0)
         ELSE Float32(v.sign, 255, BitOr(v.hi, 4194304))
    ELSE IF v.exp = 0 THEN Float32(v.sign, 0, 0)
    ELSE LET e == v.exp - 1023
         IN  IF e >= -126
             THEN LET up == \/ v.lo > 268435456
                            \/ (v.lo = 268435456 /\ v.hi % 2 = 1)
                      m == v.hi + (IF up THEN 1 ELSE 0)
                      exp32 == e + 127 + m \div 8388608
                  IN  IF exp32 >= 255 THEN Float32(v.sign, 255, 0)
                      ELSE Float32(v.sign, exp32, m % 8388608)
             ELSE LET k == -126 - e
                  IN  IF k > 25 THEN Float32(v.sign, 0, 0)
                      ELSE LET sig == 8388608 + v.hi
                               q == sig \div (2 ^ k)
                               r == sig % (2 ^ k)
                               half == 2 ^ (k - 1)
                               up == \/ r > half
                                     \/ /\ r = half
                                        /\ (v.lo > 0 \/ q % 2 = 1)
                               m == q + (IF up THEN 1 ELSE 0)
                           IN  Float32(v.sign, m \div 8388608, m % 8388608)

\* float64(f) for a float32 f: exact
Float64Of32(f) ==
    IF f.exp = 255 THEN Float64(f.sign, 2047, f.coef, 0)
    ELSE IF f.exp = 0
    THEN IF f.coef = 0 THEN Float64(f.sign, 0, 0, 0)
         ELSE LET p == TopBit(f.coef)
              IN  Float64(f.sign, p - 149 + 1023,
                          (f.coef - 2 ^ p) * 2 ^ (23 - p), 0)
    ELSE Float64(f.sign, f.exp - 127 + 1023, f.coef, 0)

cannotFitFloat32(v) == ~Eq64(Float64Of32(Float32Of64(v)), v)

PrecisionExact == "PrecisionExact"
PrecisionUnknown == "PrecisionUnknown"
PrecisionInexact == "PrecisionInexact"
PrecisionUnderflow == "PrecisionUnderflow"
PrecisionOverflow == "PrecisionOverflow"

\* float16.PrecisionFromfloat32
PrecisionFromfloat32(v) ==
    IF v.exp = 0 /\ v.coef = 0 THEN PrecisionExact
    ELSE LET exp == v.exp - 127
         IN  IF exp = 128 THEN PrecisionExact
             ELSE IF exp < -24 THEN PrecisionUnderflow
             ELSE IF exp > 15 THEN PrecisionOverflow
             ELSE IF v.coef % 8192 # 0 THEN PrecisionInexact
             ELSE IF exp < -14 THEN PrecisionUnknown
             ELSE PrecisionExact

\* float16.Fromfloat32: round to nearest, ties to even; a NaN keeps its
\* sign and the upper bits of its payload
Fromfloat32(v) ==
    IF v.exp = 255
    THEN Float16(v.sign, 31,
                 BitOr(IF v.coef # 0 THEN 512 ELSE 0, v.coef \div 8192))
    ELSE LET halfExp == v.exp - 127 + 15
         IN  IF halfExp >= 31 THEN Float16(v.sign, 31, 0)
             ELSE IF halfExp <= 0
             THEN IF 14 - halfExp > 24 THEN Float16(v.sign, 0, 0)
                  ELSE LET c == v.coef + 8388608
                           roundBit == 2 ^ (13 - halfExp)
                           halfCoef == c \div (2 * roundBit)
                           up == /\ (c \div roundBit) % 2 = 1
                                 /\ (c % roundBit # 0 \/ halfCoef % 2 = 1)
                           h == halfCoef + (IF up THEN 1 ELSE 0)
                       IN  Float16(v.sign, h \div 1024, h % 1024)
             ELSE LET halfCoef == v.coef \div 8192
                      up == /\ (v.coef \div 4096) % 2 = 1
                            /\ (v.coef % 4096 # 0 \/ halfCoef % 2 = 1)
                      h == halfExp * 1024 + halfCoef + (IF up THEN 1 ELSE 0)
                  IN  Float16(v.sign, h \div 1024, h % 1024)

\* float16.Float16.Float32: exact
Float32Of16(h) ==
    IF h.exp = 31
    THEN IF h.coef = 0 THEN Float32(h.sign, 255, 0)
         ELSE Float32(h.sign, 255, BitOr(4194304, h.coef * 8192))
    ELSE IF h.exp = 0
    THEN IF h.coef = 0 THEN Float32(h.sign, 0, 0)
         ELSE LET p == TopBit(h.coef)
              IN  Float32(h.sign, p + 103, (h.coef - 2 ^ p) * 2 ^ (23 - p))
    ELSE Float32(h.sign, h.exp + 112, h.coef * 8192)

\* FitsFloat16 that takes PrecisionUnknown for exact without the round trip
FitsFloat16_noRoundTrip(v) ==
    PrecisionFromfloat32(v) \in {PrecisionExact, PrecisionUnknown}

\* p after the two tests of AddFloat32: whether v is written as a float16
FitsFloat16(v) ==
    LET p == PrecisionFromfloat32(v)
    IN  \/ p = PrecisionExact
        \/ /\ p = PrecisionUnknown
           /\ Eq32(Float32Of16(Fromfloat32(v)), v)

AddFloat32(bb, v) ==
    IF IsNaN32(v) /\ bb.ModeNaN = ModeNaN7e00 THEN add(bb, cborNaN)
    ELSE IF ~IsNaN32(v) /\ IsInf32(v) /\ bb.ModeInf = ModeInfFloat16
    THEN IF Positive(v) THEN add(bb, cborPositiveInfinity)
         ELSE add(bb, cborNegativeInfinity)
    ELSE IF bb.ModeFloat = ModeFloat16 /\ FitsFloat16(v)
    THEN addFloat16(bb, Fromfloat32(v))
    ELSE addFloat32(bb, v)

AddFloat64(bb, v) ==
    IF IsNaN64(v) /\ bb.ModeNaN = ModeNaN7e00 THEN add(bb, cborNaN)
    ELSE IF ~IsNaN64(v) /\ IsInf64(v) /\ bb.ModeInf = ModeInfFloat16
    THEN IF Positive(v) THEN add(bb, cborPositiveInfinity)
         ELSE add(bb, cborNegativeInfinity)
    ELSE IF bb.ModeFloat = ModeFloatNone \/ cannotFitFloat32(v)
    THEN addFloat64(bb, v)
    ELSE AddFloat32(bb, Float32Of64(v))

(***************************************************************************)
(* Go slices of the result buffer                                          *)
(***************************************************************************)
Panic(bb, kind) == [bb EXCEPT !.panic = kind]

\* byte(n) for an int n
ByteOfInt(n) == ((n % 256) + 256) % 256

\* the w big-endian bytes of n, 0 <= n < 256^w
BigEndian(n, w) == [i \in 1..w |-> (n \div (256 ^ (w - i))) % 256]

\* CopyWithin that copies byte by byte from the front, so that a byte
\* already overwritten is copied again when the ranges overlap
CopyWithin_forward(res, d, s) ==
    IF d <= s THEN res
    ELSE [i \in 1..Len(res) |->
            IF i > d /\ i - d <= Len(res) - s
            THEN res[s + 1 + ((i - d - 1) % (d - s))]
            ELSE res[i]]

\* copy(res[d:], res[s:]) inside one buffer (a memmove); d, s <= Len(res)
CopyWithin(res, d, s) ==
    [i \in 1..Len(res) |->
        IF i > d /\ i - d <= Len(res) - s THEN res[s + (i - d)] ELSE res[i]]

\* CopyInto that inserts src at d and keeps the bytes it should overwrite
CopyInto_insert(res, d, src) ==
    SubSeq(res, 1, d) \o src \o SubSeq(res, d + 1, Len(res))

\* copy(res[d:], src)
CopyInto(res, d, src) ==
    [i \in 1..Len(res) |->
        IF i > d /\ i - d <= Len(src) THEN src[i - d] ELSE res[i]]

\* binary.BigEndian.PutUintN(b.result[at:], n), N = 8*w
PutUint(bb, at, w, n) ==
    IF at > Len(bb.result) THEN Panic(bb, PanicSlice)
    ELSE IF Len(bb.result) - at < w THEN Panic(bb, PanicIndex)
    ELSE [bb EXCEPT !.result = CopyInto(@, at, BigEndian(n, w))]

\* b.result[at] = v
SetByte(bb, at, v) ==
    IF at < 0 \/ at >= Len(bb.result) THEN Panic(bb, PanicIndex)
    ELSE [bb EXCEPT !.result[at + 1] = v]

\* GrowHeader that makes room inside the bytes already written, without
\* appending any: the last w bytes of the payload are lost
GrowHeader_inPlace(bb, offset, w) ==
    IF offset + 1 + w > Len(bb.result) THEN Panic(bb, PanicSlice)
    ELSE [bb EXCEPT !.result = CopyWithin(@, offset + 1 + w, offset + 1)]

\* GrowHeader without the copy that makes room for the longer header
GrowHeader_noShift(bb, offset, w) == add(bb, ZeroBytes(w))

\* the length header of addUnknown grows by w bytes: b.add(0, ...) and
\* copy(b.result[offset+1+w:], b.result[offset+1:])
GrowHeader(bb, offset, w) ==
    LET b1 == add(bb, ZeroBytes(w))
    IN  IF offset + 1 + w > Len(b1.result) THEN Panic(b1, PanicSlice)
        ELSE [b1 EXCEPT !.result = CopyWithin(@, offset + 1 + w, offset + 1)]

(***************************************************************************)
(* The map reorderer                                                       *)
(***************************************************************************)
mapItem(offset, keyLength) == [offset |-> offset, keyLength |-> keyLength]

\* whether b.result[lo:hi] is a slice expression that does not panic.  Go
\* tests hi against the capacity; the slice expressions that the runs of
\* this model reach with hi beyond the length have lo beyond hi, or no hi
\* of their own (b.result[lo:]), and panic whatever the capacity is
SliceOK(bb, lo, hi) == 0 <= lo /\ lo <= hi /\ hi <= Len(bb.result)

\* b.result[lo:hi]
SliceOf(bb, lo, hi) == SubSeq(bb.result, lo + 1, hi)

IndexOK(bb, i) == 0 <= i /\ i < Len(bb.offsets)

keyFnOK(bb, i) ==
    /\ IndexOK(bb, i)
    /\ SliceOK(bb, bb.offsets[i + 1].offset,
               bb.offsets[i + 1].offset + bb.offsets[i + 1].keyLength)

keyFn(bb, i) ==
    SliceOf(bb, bb.offsets[i + 1].offset,
            bb.offsets[i + 1].offset + bb.offsets[i + 1].keyLength)

\* the end of item i: the next descriptor's offset, or the end of the buffer
itemMax(bb, i) ==
    IF i < bb.mapSize - 1 THEN bb.offsets[i + 2].offset ELSE Len(bb.result)

itemFnOK(bb, i) ==
    /\ IndexOK(bb, i)
    /\ (i < bb.mapSize - 1 => IndexOK(bb, i + 1))
    /\ SliceOK(bb, bb.offsets[i + 1].offset, itemMax(bb, i))

itemFn(bb, i) == SliceOf(bb, bb.offsets[i + 1].offset, itemMax(bb, i))

RECURSIVE CompareFrom(_, _, _)
CompareFrom(x, y, i) ==
    IF i > Len(x) /\ i > Len(y) THEN 0
    ELSE IF i > Len(x) THEN -1
    ELSE IF i > Len(y) THEN 1
    ELSE IF x[i] < y[i] THEN -1
    ELSE IF x[i] > y[i] THEN 1
    ELSE CompareFrom(x, y, i + 1)

\* bytes.Compare(x, y)
Compare(x, y) == CompareFrom(x, y, 1)

\* searchPred without the comparison of the lengths
searchPred_bytesOnly(mode, x, y) == Compare(x, y) <= 0

\* searchPred with "<" for "<="
searchPred_strict(mode, x, y) ==
    IF mode = ModeSortLengthFirst /\ Len(x) # Len(y) THEN Len(x) < Len(y)
    ELSE Compare(x, y) < 0

\* the predicate that sort hands to sort.Search: x is the new key, y the
\* key of an entry placed earlier
searchPred(mode, x, y) ==
    IF mode = ModeSortLengthFirst /\ Len(x) # Len(y) THEN Len(x) < Len(y)
    ELSE Compare(x, y) <= 0

RECURSIVE Search(_, _, _, _)
\* sort.Search's loop over [i, j); ok is FALSE when a key slice panics
Search(bb, x, i, j) ==
    IF i < j
    THEN LET h == (i + j) \div 2
         IN  IF ~keyFnOK(bb, h) THEN [idx |-> h, ok |-> FALSE]
             ELSE IF ~searchPred(bb.ModeSort, x, keyFn(bb, h))
                  THEN Search(bb, x, h + 1, j)
                  ELSE Search(bb, x, i, h)
    ELSE [idx |-> i, ok |-> TRUE]

\* the body of "if idx < b.mapSize-1": the bytes and the descriptors move
moveLast(bb, idx) ==
    IF ~itemFnOK(bb, bb.mapSize - 1) THEN Panic(bb, PanicSlice)
    ELSE
    LET n == bb.mapSize
        last == itemFn(bb, n - 1)
        tmp1 == IF Len(bb.tmp) < Len(last)
                THEN bb.tmp \o ZeroBytes(Len(last) - Len(bb.tmp))
                ELSE bb.tmp
        newOffset == bb.offsets[idx + 1].offset
        tmp2 == [i \in 1..Len(tmp1) |->
                    IF i <= Len(last) THEN last[i] ELSE tmp1[i]]
        lastOffset == bb.offsets[n]
    IN  IF ~SliceOK(bb, newOffset + Len(last), Len(bb.result))
           \/ ~SliceOK(bb, newOffset, Len(bb.result))
        THEN Panic([bb EXCEPT !.tmp = tmp2], PanicSlice)
        ELSE [bb EXCEPT
                !.tmp = tmp2,
                !.result = CopyInto(CopyWithin(@, newOffset + Len(last),
                                               newOffset),
                                    newOffset, SubSeq(tmp2, 1, Len(last))),
                !.offsets = [i \in 1..Len(@) |->
                    IF i - 1 > idx /\ i - 1 <= n - 1
                    THEN mapItem(@[i - 1].offset + Len(last),
                                 @[i - 1].keyLength)
                    ELSE IF i - 1 = idx
                    THEN mapItem(newOffset, lastOffset.keyLength)
                    ELSE @[i]]]

\* Builder.sort; .idx is the index the search chose (a ghost of the model)
sortIdx(bb) ==
    IF ~keyFnOK(bb, bb.mapSize - 1) THEN [idx |-> -1, ok |-> FALSE]
    ELSE Search(bb, keyFn(bb, bb.mapSize - 1), 0, bb.mapSize - 1)

sort(bb) ==
    LET s == sortIdx(bb)
    IN  IF ~s.ok THEN Panic(bb, PanicSlice)
        ELSE IF s.idx < bb.mapSize - 1 THEN moveLast(bb, s.idx)
        ELSE bb

(***************************************************************************)
(* Callbacks                                                               *)
(*                                                                         *)
(* A BuilderContinuation is a sequence of calls on the Builder; a call is  *)
(* a record whose field op names the method.  Run(bb, fn) is fn(b).        *)
(***************************************************************************)
RECURSIVE Run(_, _)

addUnknown(bb, t, fn) ==
    IF bb.panic # NoPanic THEN bb
    ELSE
    LET offset == BuilderLen(bb)
        b1 == Run(addUint8(bb, t, <<0>>), fn)
        length == BuilderLen(b1) - offset - 1
    IN  IF b1.panic # NoPanic THEN b1
        ELSE IF length <= 23
        THEN SetByte(b1, offset, BitOr(t, ByteOfInt(length)))
        ELSE IF length <= 255
        THEN LET b2 == GrowHeader(b1, offset, 1)
             IN  IF b2.panic # NoPanic THEN b2
                 ELSE SetByte(SetByte(b2, offset, BitOr(t, 24)),
                              offset + 1, ByteOfInt(length))
        ELSE IF length <= 65535
        THEN LET b2 == GrowHeader(b1, offset, 2)
             IN  IF b2.panic # NoPanic THEN b2
                 ELSE PutUint(SetByte(b2, offset, BitOr(t, 25)),
                              offset + 1, 2, length)
        \* the lengths of the model are below 2^31 <= math.MaxUint32
        ELSE LET b2 == GrowHeader(b1, offset, 4)
             IN  IF b2.panic # NoPanic THEN b2
                 ELSE PutUint(SetByte(b2, offset, BitOr(t, 26)),
                              offset + 1, 4, length)

AddBytesUnknownLength(bb, fn) == addUnknown(bb, cborTypeByteString, fn)

AddArray(bb, n, fn) == Run(addUint64(bb, cborTypeArray, n), fn)

\* AddMap that leaves the descriptor array as it finds it
AddMap_noGrow(bb, length) ==
    IF bb.panic # NoPanic THEN bb
    ELSE addUint64([bb EXCEPT !.mapSize = 0], cborTypeMap, Uint64Of(length))

\* AddMap(length); the AddMapItemFunc it returns is addMapItem
AddMap(bb, length) ==
    IF bb.panic # NoPanic THEN bb
    ELSE LET b1 == addUint64([bb EXCEPT !.mapSize = 0], cborTypeMap,
                             Uint64Of(length))
         IN  IF Len(b1.offsets) < length
             THEN [b1 EXCEPT !.offsets =
                     @ \o [i \in 1..(length - Len(@)) |-> mapItem(0, 0)]]
             ELSE b1

\* addMapItem up to b.mapSize++, before the sort
addMapItemRecord(bb, k, v) ==
    IF bb.panic # NoPanic THEN bb
    ELSE
    LET offset == BuilderLen(bb)
        b1 == Run(bb, k)
        keyLength == BuilderLen(b1) - offset
        b2 == Run(b1, v)
    IN  IF b2.panic # NoPanic THEN b2
        ELSE IF ~IndexOK(b2, b2.mapSize) THEN Panic(b2, PanicIndex)
        ELSE [b2 EXCEPT !.offsets[b2.mapSize + 1] = mapItem(offset, keyLength),
                        !.mapSize = @ + 1]

\* sortIfSorting without the test of the mode
sortIfSorting_always(bb) ==
    IF bb.panic # NoPanic THEN bb
    ELSE sort(bb)

sortIfSorting(bb) ==
    IF bb.panic # NoPanic THEN bb
    ELSE IF bb.ModeSort # ModeSortNone THEN sort(bb)
    ELSE bb

addMapItem(bb, k, v) == sortIfSorting(addMapItemRecord(bb, k, v))

RECURSIVE addMapItems(_, _)
\* the caller's loop over the entries: fn(k, v) for each of them
addMapItems(bb, items) ==
    IF items = << >> THEN bb
    ELSE addMapItems(addMapItem(bb, Head(items).k, Head(items).v),
                     Tail(items))

(***************************************************************************)
(* Maps in src/unnamed/part_001: a descriptor holds the length of the      *)
(* value too, and AddMapItem is a method of its own                        *)
(***************************************************************************)
mapItem_p1(offset, keyLength, valueLength) ==
    [offset |-> offset, keyLength |-> keyLength, valueLength |-> valueLength]

\* itemMax_p1 without the length of the value
itemMax_p1_keyOnly(bb, i) ==
    bb.offsets[i + 1].offset + bb.offsets[i + 1].keyLength

\* the end of item i: its offset plus the lengths of its key and value
itemMax_p1(bb, i) ==
    bb.offsets[i + 1].offset + bb.offsets[i + 1].keyLength
        + bb.offsets[i + 1].valueLength

itemFnOK_p1(bb, i) ==
    /\ IndexOK(bb, i)
    /\ SliceOK(bb, bb.offsets[i + 1].offset, itemMax_p1(bb, i))

itemFn_p1(bb, i) == SliceOf(bb, bb.offsets[i + 1].offset, itemMax_p1(bb, i))

\* the body of "if idx < b.mapSize-1" in part_001
moveLast_p1(bb, idx) ==
    IF ~itemFnOK_p1(bb, bb.mapSize - 1) THEN Panic(bb, PanicSlice)
    ELSE
    LET n == bb.mapSize
        last == itemFn_p1(bb, n - 1)
        tmp1 == IF Len(bb.tmp) < Len(last)
                THEN bb.tmp \o ZeroBytes(Len(last) - Len(bb.tmp))
                ELSE bb.tmp
        newOffset == bb.offsets[idx + 1].offset
        tmp2 == [i \in 1..Len(tmp1) |->
                    IF i <= Len(last) THEN last[i] ELSE tmp1[i]]
        lastOffset == bb.offsets[n]
    IN  IF ~SliceOK(bb, newOffset + Len(last), Len(bb.result))
           \/ ~SliceOK(bb, newOffset, Len(bb.result))
        THEN Panic([bb EXCEPT !.tmp = tmp2], PanicSlice)
        ELSE [bb EXCEPT
                !.tmp = tmp2,
                !.result = CopyInto(CopyWithin(@, newOffset + Len(last),
                                               newOffset),
                                    newOffset, SubSeq(tmp2, 1, Len(last))),
                !.offsets = [i \in 1..Len(@) |->
                    IF i - 1 > idx /\ i - 1 <= n - 1
                    THEN mapItem_p1(@[i - 1].offset + Len(last),
                                    @[i - 1].keyLength,
                                    @[i - 1].valueLength)
                    ELSE IF i - 1 = idx
                    THEN mapItem_p1(newOffset, lastOffset.keyLength,
                                    lastOffset.valueLength)
                    ELSE @[i]]]

sort_p1(bb) ==
    LET s == sortIdx(bb)
    IN  IF ~s.ok THEN Panic(bb, PanicSlice)
        ELSE IF s.idx < bb.mapSize - 1 THEN moveLast_p1(bb, s.idx)
        ELSE bb

AddMap_p1(bb, length) ==
    IF bb.panic # NoPanic THEN bb
    ELSE LET b1 == addUint_p1([bb EXCEPT !.mapSize = 0], cborTypeMap,
                              Uint64Of(length))
         IN  IF Len(b1.offsets) < length
             THEN [b1 EXCEPT !.offsets =
                     @ \o [i \in 1..(length - Len(@)) |->
                                mapItem_p1(0, 0, 0)]]
             ELSE b1

\* AddMapItem up to b.mapSize++, before the sort
\* b.offsets[b.mapSize] = mapItem{...}; b.mapSize++ on the Builder b2 that
\* the value callback left; afterKey is the length after the key callback
recordItem_p1(b2, offset, afterKey) ==
    IF b2.panic # NoPanic THEN b2
    ELSE IF ~IndexOK(b2, b2.mapSize) THEN Panic(b2, PanicIndex)
    ELSE [b2 EXCEPT
            !.offsets[b2.mapSize + 1] =
                mapItem_p1(offset, afterKey - offset,
                           BuilderLen(b2) - afterKey),
            !.mapSize = @ + 1]

\* the value callback on the Builder b1 that the key callback left
valueThenRecord_p1(b1, offset, v) ==
    recordItem_p1(Run(b1, v), offset, BuilderLen(b1))

AddMapItemRecord_p1(bb, k, v) ==
    IF bb.panic # NoPanic THEN bb
    ELSE valueThenRecord_p1(Run(bb, k), BuilderLen(bb), v)

sortIfSorting_p1(bb) ==
    IF bb.panic # NoPanic THEN bb
    ELSE IF bb.ModeSort # ModeSortNone THEN sort_p1(bb)
    ELSE bb

AddMapItem_p1(bb, k, v) == sortIfSorting_p1(AddMapItemRecord_p1(bb, k, v))

RECURSIVE addMapItems_p1(_, _)
\* the caller's b.AddMapItem(k, v) for each of the entries
addMapItems_p1(bb, items) ==
    IF items = << >> THEN bb
    ELSE addMapItems_p1(AddMapItem_p1(bb, Head(items).k, Head(items).v),
                        Tail(items))

RECURSIVE addEach(_, _)
\* for i := 0; i < l; i++ { b.add(byte(v.Index(i).Uint())) }
addEach(bb, data) ==
    IF data = << >> THEN bb
    ELSE addEach(add(bb, <<Head(data)>>), Tail(data))

\* Builder.value for a value whose kind is a slice of uint8 and whose type
\* is neither big.Int nor a MarshalingValue: a byte string
value(bb, v) ==
    IF bb.err # NoError THEN bb
    ELSE IF v.isNil THEN AddNil(bb)
    ELSE IF Len(v.data) = 0 THEN addUint8(bb, cborTypeByteString, <<0>>)
    ELSE addEach(addUint64(bb, cborTypeByteString, Uint64Of(Len(v.data))),
                 v.data)

\* the callbacks that Marshal builds: func(b *Builder) { b.Marshal(x) }
MarshalCall(x) == [op |-> "Marshal", v |-> x]
MarshalFn(x) == <<MarshalCall(x)>>

\* Builder.Marshal, for the Go types of the model; a map value lists its
\* entries in the order in which range yields them
Marshal(bb, v) ==
    IF bb.panic # NoPanic THEN bb
    ELSE IF bb.err # NoError THEN bb
    ELSE CASE v.type = "nil" -> AddNil(bb)
           [] v.type = "bool" -> AddBool(bb, v.v)
           [] v.type = "uint8" -> AddUint8(bb, v.v)
           [] v.type = "[]uint8" ->
                IF v.v.isNil THEN AddNil(bb) ELSE AddBytes(bb, v.v)
           [] v.type = "string" -> AddString(bb, v.v)
           [] v.type = "[]interface{}" ->
                IF v.isNil THEN AddNil(bb)
                ELSE AddArray(bb, Uint64Of(Len(v.v)),
                              [i \in 1..Len(v.v) |-> MarshalCall(v.v[i])])
           [] v.type = "map[interface{}]interface{}" ->
                IF v.isNil THEN AddNil(bb)
                ELSE addMapItems(AddMap(bb, Len(v.v)),
                                 [i \in 1..Len(v.v) |->
                                    [k |-> MarshalFn(v.v[i].k),
                                     v |-> MarshalFn(v.v[i].v)]])
           [] v.type = "MarshalingValue" ->
                LET b1 == Run(bb, v.v)
                IN  IF v.err # NoError THEN SetError(b1, v.err) ELSE b1
           \* RawBytes has the method MarshalCBORValue(*Builder), without the
           \* error result of the interface MarshalingValue: the type switch
           \* takes its default case, and so does Builder.value
           [] v.type = "RawBytes" -> value(bb, v.v)

\* the function Marshal of the package: a zero Builder, b.Marshal(v),
\* b.Bytes()
PkgMarshal(v) == Bytes(Marshal(NewBuilder(<< >>, ModeSortLengthFirst), v))

\* Builder.AddValue: v.MarshalCBORValue(b) is the callback v.v and returns
\* v.err
AddValue(bb, v) ==
    IF bb.panic # NoPanic THEN bb
    ELSE LET b1 == Run(bb, v.v)
         IN  IF b1.panic # NoPanic THEN b1
             ELSE IF v.err # NoError THEN [b1 EXCEPT !.err = v.err]
             ELSE b1

\* one call of a callback
Call(bb, c) ==
    IF bb.panic # NoPanic THEN bb
    ELSE CASE c.op = "AddUint8" -> AddUint8(bb, c.v)
           [] c.op = "AddInt8" -> AddInt8(bb, c.v)
           [] c.op = "AddNil" -> AddNil(bb)
           [] c.op = "AddBool" -> AddBool(bb, c.v)
           [] c.op = "AddRawBytes" -> AddRawBytes(bb, c.v)
           [] c.op = "AddBytes" -> AddBytes(bb, c.v)
           [] c.op = "AddString" -> AddString(bb, c.v)
           [] c.op = "AddTag" -> AddTag(bb, c.v)
           [] c.op = "SetError" -> SetError(bb, c.v)
           [] c.op = "AddArray" -> AddArray(bb, c.n, c.fn)
           [] c.op = "AddBytesUnknownLength" ->
                AddBytesUnknownLength(bb, c.fn)
           [] c.op = "AddMap" -> addMapItems(AddMap(bb, c.n), c.items)
           [] c.op = "AddMap_p1" ->
                addMapItems_p1(AddMap_p1(bb, c.n), c.items)
           [] c.op = "Marshal" -> Marshal(bb, c.v)

Run(bb, fn) == IF fn = << >> THEN bb ELSE Run(Call(bb, Head(fn)), Tail(fn))

(***************************************************************************)
(* SpecInt: every integer operation applied once to a fresh Builder        *)
(***************************************************************************)
ByteSamples == {0, 1, 23, 24, 127, 128, 255}

\* w-byte values: a low byte, one other byte and a fill, all from the
\* samples; they include 0, 23, 24, 255, 256, 65535, 65536, 2^32-1, 2^32,
\* 2^64-1 and the least value of every signed width
IntValues(w) ==
    {[i \in 1..w |-> IF i = w THEN lo ELSE IF i = p THEN c ELSE f] :
        lo \in ByteSamples, c \in ByteSamples, p \in 1..w, f \in {0, 255}}

UnsignedOps ==
    {"AddUint8", "AddUint16", "AddUint32", "AddUint64", "AddUint",
     "AddTag", "AddArray"}

SignedOps == {"AddInt8", "AddInt16", "AddInt32", "AddInt64", "AddInt"}

IntWidth(op) ==
    CASE op \in {"AddUint8", "AddInt8"} -> 1
      [] op \in {"AddUint16", "AddInt16"} -> 2
      [] op \in {"AddUint32", "AddInt32"} -> 4
      [] OTHER -> 8

Revisions == {"part_000", "part_001"}

IntInputs ==
    {[src |-> s, op |-> o, v |-> x] :
        s \in Revisions, o \in UnsignedOps, x \in IntValues(8)}
    \cup {[src |-> "part_000", op |-> o, v |-> x] :
            o \in SignedOps, x \in IntValues(8)}

\* no map is being built by the caller
NoPending ==
    [left |-> 0, start |-> 0, done |-> 0, items |-> << >>,
     entries |-> << >>, before |-> << >>]
\* no operation has run yet
NoOp == [op |-> "none"]

InitInt ==
    /\ in \in IntInputs
    /\ b = NewBuilder(<< >>, ModeSortLengthFirst)
    /\ phase = "ready"
    /\ pending = NoPending
    /\ calls = 0
    /\ lastOp = NoOp
    /\ ref = NewBuilder(<< >>, ModeSortLengthFirst)

\* the argument at the width of the operation
IntArg == Trunc(in.v, IntWidth(in.op))

Applied(op, bb) ==
    /\ phase = "ready"
    /\ in.op = op
    /\ b' = bb
    /\ phase' = "done"
    /\ UNCHANGED <<pending, lastOp, in, ref, calls>>

DoAddUint8 ==
    Applied("AddUint8", IF in.src = "part_001" THEN AddUint8_p1(b, IntArg)
                        ELSE AddUint8(b, IntArg))

DoAddUint16 ==
    Applied("AddUint16", IF in.src = "part_001" THEN AddUint16_p1(b, IntArg)
                         ELSE AddUint16(b, IntArg))

DoAddUint32 ==
    Applied("AddUint32", IF in.src = "part_001" THEN AddUint32_p1(b, IntArg)
                         ELSE AddUint32(b, IntArg))

DoAddUint64 ==
    Applied("AddUint64", IF in.src = "part_001" THEN AddUint64_p1(b, IntArg)
                         ELSE AddUint64(b, IntArg))

DoAddUint ==
    Applied("AddUint", IF in.src = "part_001" THEN AddUint_p1(b, IntArg)
                       ELSE AddUint(b, IntArg))

DoAddTag ==
    Applied("AddTag", IF in.src = "part_001" THEN AddTag_p1(b, IntArg)
                      ELSE AddTag(b, IntArg))

\* AddArray(n, fn) with an fn that adds nothing: the header alone
DoAddArray ==
    Applied("AddArray", IF in.src = "part_001"
                        THEN addUint_p1(b, cborTypeArray, IntArg)
                        ELSE AddArray(b, IntArg, << >>))

DoAddInt8 == Applied("AddInt8", AddInt8(b, IntArg))
DoAddInt16 == Applied("AddInt16", AddInt16(b, IntArg))
DoAddInt32 == Applied("AddInt32", AddInt32(b, IntArg))
DoAddInt64 == Applied("AddInt64", AddInt64(b, IntArg))
DoAddInt == Applied("AddInt", AddInt(b, IntArg))

NextInt ==
    \/ DoAddUint8
    \/ DoAddUint16
    \/ DoAddUint32
    \/ DoAddUint64
    \/ DoAddUint
    \/ DoAddTag
    \/ DoAddArray
    \/ DoAddInt8
    \/ DoAddInt16
    \/ DoAddInt32
    \/ DoAddInt64
    \/ DoAddInt

SpecInt == InitInt /\ [][NextInt]_vars

(***************************************************************************)
(* Claims about the integer encodings                                      *)
(***************************************************************************)
\* the number of leading zero bytes of v
LeadingZeros(v) ==
    CHOOSE k \in 0..Len(v) :
        /\ \A i \in 1..k : v[i] = 0
        /\ (k = Len(v) \/ v[k + 1] # 0)

\* RFC 7049's shortest form of the unsigned value v under major type t
ShortestForm(t, v) ==
    LET n == Len(v)
        sig == n - LeadingZeros(v)
    IN  IF sig = 0 \/ (sig = 1 /\ v[n] <= 23) THEN <<t + v[n]>>
        ELSE IF sig = 1 THEN <<t + 24, v[n]>>
        ELSE IF sig = 2 THEN <<t + 25>> \o SubSeq(v, n - 1, n)
        ELSE IF sig <= 4 THEN <<t + 26>> \o SubSeq(v, n - 3, n)
        ELSE <<t + 27>> \o SubSeq(v, n - 7, n)

\* -v-1 for a negative two's complement v: every bit of v inverted
MinusVMinusOne(v) == [i \in 1..Len(v) |-> 255 - v[i]]

MajorTypeOf(op) ==
    CASE op = "AddTag" -> cborTypeTag
      [] op = "AddArray" -> cborTypeArray
      [] OTHER -> cborTypePositiveInt

\* C4: every operation that writes a header argument emits the shortest
\* form that holds the value (inline up to 23, then 1, 2, 4 or 8 bytes),
\* whatever the integer width of the operation.
C4_ShortestHeader ==
    (phase = "done" /\ in.op \in UnsignedOps)
        => b.result = ShortestForm(MajorTypeOf(in.op), IntArg)

\* C5: a negative value of any signed width, the least value of the width
\* included, is major type 0x20 with argument -v-1 in shortest form; a
\* non-negative value encodes as the unsigned value.
C5_SignedEncoding ==
    (phase = "done" /\ in.op \in SignedOps)
        => /\ b.err = NoError
           /\ b.panic = NoPanic
           /\ b.result =
                IF NonNegative(IntArg)
                THEN ShortestForm(cborTypePositiveInt, IntArg)
                ELSE ShortestForm(cborTypeNegativeInt,
                                  MinusVMinusOne(IntArg))

\* C5's case: AddInt64 of the least int64, where v*(-1) wraps
C5_Witness ==
    /\ phase = "done"
    /\ in.op = "AddInt64"
    /\ IntArg = <<128, 0, 0, 0, 0, 0, 0, 0>>
    /\ b.result = <<59, 127, 255, 255, 255, 255, 255, 255, 255>>

(***************************************************************************)
(* SpecStr: AddBytes and AddString applied once to a Builder; a string is  *)
(* the (never nil) slice of its bytes                                      *)
(***************************************************************************)
MaxStrLen == 2

RECURSIVE SeqsUpTo(_, _)
\* the sequences over S of length at most n
SeqsUpTo(S, n) ==
    IF n = 0 THEN {<< >>}
    ELSE LET shorter == SeqsUpTo(S, n - 1)
         IN  shorter \cup {Append(q, x) : q \in shorter, x \in S}

\* a payload of n bytes that differ from their neighbours
Ramp(n) == [i \in 1..n |-> i % 251]

StrPayloads ==
    SeqsUpTo({1, 255}, MaxStrLen)
    \cup {Ramp(n) : n \in {23, 24, 255, 256, 65535, 65536}}

StrRevisions == {"part_000", "builder.go"}

StrInputs ==
    {[src |-> s, op |-> "AddBytes", v |-> x, prefix |-> p] :
        s \in StrRevisions,
        x \in {NilSlice} \cup {Slice(d) : d \in StrPayloads},
        p \in {<< >>, <<cborTrue>>}}
    \cup {[src |-> s, op |-> "AddString", v |-> Slice(x), prefix |-> p] :
            s \in StrRevisions, x \in StrPayloads,
            p \in {<< >>, <<cborTrue>>}}

InitStr ==
    /\ in \in StrInputs
    /\ b = NewBuilder(in.prefix, ModeSortLengthFirst)
    /\ phase = "ready"
    /\ pending = NoPending
    /\ calls = 0
    /\ lastOp = NoOp
    /\ ref = NewBuilder(<< >>, ModeSortLengthFirst)

DoAddBytes ==
    Applied("AddBytes", IF in.src = "builder.go" THEN AddBytes_b(b, in.v)
                        ELSE AddBytes(b, in.v))

DoAddString ==
    Applied("AddString",
            IF in.src = "builder.go" THEN AddString_b(b, in.v.data)
            ELSE AddString(b, in.v.data))

NextStr ==
    \/ DoAddBytes
    \/ DoAddString

SpecStr == InitStr /\ [][NextStr]_vars

(***************************************************************************)
(* Claims about byte strings and text strings                              *)
(***************************************************************************)
\* what the operation of SpecStr appended
StrAppended == SubSeq(b.result, Len(in.prefix) + 1, Len(b.result))

\* C10: a nil byte sequence encodes to the single byte 0xf6, an empty byte
\* sequence to 0x40 and an empty text string to 0x60, three different
\* outputs.
C10_NilEmptyDistinct ==
    phase = "done"
        => /\ (in.op = "AddBytes" /\ in.v.isNil) => StrAppended = <<246>>
           /\ (in.op = "AddBytes" /\ ~in.v.isNil /\ in.v.data = << >>)
                => StrAppended = <<64>>
           /\ (in.op = "AddString" /\ in.v.data = << >>)
                => StrAppended = <<96>>

\* C14: for every non-empty byte sequence or text string of length n,
\* AddBytes / AddString appends the shortest-form header of major type
\* 0x40 / 0x60 for n and then exactly the n payload bytes in their order,
\* so the buffer grows by the width of the header plus n.
C14_HeaderThenPayload ==
    (phase = "done" /\ in.src = "part_000" /\ ~in.v.isNil
     /\ Len(in.v.data) > 0)
        => LET n == Len(in.v.data)
               t == IF in.op = "AddBytes" THEN 64 ELSE 96
               header == ShortestForm(t, Uint64Of(n))
           IN  /\ b.panic = NoPanic
               /\ b.err = NoError
               /\ b.result = in.prefix \o header \o in.v.data
               /\ Len(b.result) = Len(in.prefix) + Len(header) + n

\* a text string of 24 bytes has been appended after the byte 0xf5
C14_Witness ==
    /\ phase = "done"
    /\ in.src = "part_000"
    /\ in.op = "AddString"
    /\ in.prefix = <<cborTrue>>
    /\ Len(in.v.data) = 24
    /\ SubSeq(b.result, 1, 5) = <<cborTrue, 120, 24, 1, 2>>
    /\ Len(b.result) = 27

(***************************************************************************)
(* SpecUnknown: AddBytesUnknownLength with a body that appends n bytes,    *)
(* and AddBytes of the same n bytes on a second Builder (ref)              *)
(***************************************************************************)
\* payload lengths on both sides of the header boundaries 24, 256, 65536
UnknownLens == {0, 1, 2, 22, 23, 24, 25, 254, 255, 256, 257, 65535, 65536}

\* in how many AddRawBytes calls the body appends its payload
MaxChunks == 2

UnknownPrefixes == {<< >>, <<cborTrue>>, <<cborTypeArray + 2, 1>>}

\* every prefix before the short payloads, one before the two longest
UnknownInputs ==
    {[op |-> "AddBytesUnknownLength", n |-> n, chunks |-> c, prefix |-> p] :
        n \in {m \in UnknownLens : m < 65535},
        c \in 1..MaxChunks, p \in UnknownPrefixes}
    \cup {[op |-> "AddBytesUnknownLength", n |-> n, chunks |-> c,
           prefix |-> <<cborTrue>>] :
            n \in {m \in UnknownLens : m >= 65535}, c \in 1..MaxChunks}

Payload == Ramp(in.n)

\* the bounds of chunk k of c chunks of a payload of n bytes
ChunkOf(n, c, k) == SubSeq(Ramp(n), ((k - 1) * n) \div c + 1, (k * n) \div c)

\* func(b *Builder) { b.AddRawBytes(chunk 1); ...; b.AddRawBytes(chunk c) }
Body ==
    [k \in 1..in.chunks |->
        [op |-> "AddRawBytes", v |-> ChunkOf(in.n, in.chunks, k)]]

InitUnknown ==
    /\ in \in UnknownInputs
    /\ b = NewBuilder(in.prefix, ModeSortLengthFirst)
    /\ ref = NewBuilder(in.prefix, ModeSortLengthFirst)
    /\ phase = "ready"
    /\ pending = NoPending
    /\ calls = 0
    /\ lastOp = NoOp

DoAddBytesUnknownLength ==
    /\ phase = "ready"
    /\ b' = AddBytesUnknownLength(b, Body)
    /\ phase' = "unknown"
    /\ UNCHANGED <<pending, lastOp, in, ref, calls>>

\* the same payload with its length known in advance
DoAddBytesKnown ==
    /\ phase = "unknown"
    /\ ref' = AddBytes(ref, Slice(Payload))
    /\ phase' = "done"
    /\ UNCHANGED <<pending, lastOp, in, b, calls>>

NextUnknown ==
    \/ DoAddBytesUnknownLength
    \/ DoAddBytesKnown

SpecUnknown == InitUnknown /\ [][NextUnknown]_vars

\* C9: for a body that appends n payload bytes, n on both sides of 24, 256
\* and 65536, AddBytesUnknownLength leaves the bytes that were there,
\* unchanged, then the shortest byte-string header for n, then the payload
\* unchanged: the bytes of AddBytes of the same payload.
C9_UnknownLengthIsAddBytes ==
    phase = "done"
        => /\ b.panic = NoPanic
           /\ b.err = NoError
           /\ b.result = in.prefix
                           \o ShortestForm(cborTypeByteString,
                                           Uint64Of(in.n))
                           \o Payload
           /\ b.result = ref.result

\* C9's case: a body of two chunks whose 256 bytes make the one-byte header
\* grow by two bytes behind a prefix, the payload moving with it
C9_Witness ==
    /\ phase = "done"
    /\ in.n = 256
    /\ in.chunks = 2
    /\ in.prefix = <<cborTrue>>
    /\ SubSeq(b.result, 1, 6) = <<cborTrue, 89, 1, 0, 1, 2>>
    /\ Len(b.result) = 260

(***************************************************************************)
(* Spec: a caller drives one Builder through its public operations.  The   *)
(* caller may build a map: AddMap(length) and then one addMapItem per      *)
(* entry, whose key and value callbacks may build maps of their own on the *)
(* same Builder.                                                           *)
(*                                                                         *)
(* Ghost state: pending is the caller's view of the map it is building     *)
(* (entries still to add, the offset after the header, the callbacks and   *)
(* the bytes of the entries added so far, the buffer before AddMap);       *)
(* lastOp is the last call, its Builder before the reorderer ran and the   *)
(* index the search chose; ref is a second Builder on which the same       *)
(* entries are added in another order.                                     *)
(***************************************************************************)
\* the number of calls the caller makes
MaxCalls == 4

\* the calls, among the caller's first, that need not build a map
MaxPlainCalls == 2

\* the calls the caller makes before it builds a map
MaxCallsBeforeMap == 1

\* the greatest length the caller declares for a map
MaxMapLen == 3

SortModes == {ModeSortLengthFirst, ModeSortBytewiseLexical, ModeSortNone}

KeyNames == {"1", "2", "24", "nil", "map0"}

ValueNames == {"3", "nil", "map0", "map1"}

\* the entries the caller adds, as <<key callback, value callback>>: every
\* key with one scalar value, two keys with every value, and one entry
\* whose value callback fails
EntryNames ==
    {<<k, "3">> : k \in KeyNames}
    \cup {<<k, v>> : k \in {"1", "2"}, v \in ValueNames}
    \cup {<<"1", "fail">>}

\* the callbacks of the caller, by name
Callback(name) ==
    CASE name = "1" -> <<[op |-> "AddUint8", v |-> <<1>>]>>
      [] name = "2" -> <<[op |-> "AddUint8", v |-> <<2>>]>>
      [] name = "3" -> <<[op |-> "AddUint8", v |-> <<3>>]>>
      [] name = "24" -> <<[op |-> "AddUint8", v |-> <<24>>]>>
      [] name = "nil" -> <<[op |-> "AddNil"]>>
      [] name = "raw" -> <<[op |-> "AddRawBytes", v |-> <<1, 2>>]>>
      [] name = "none" -> << >>
      [] name = "fail" -> <<[op |-> "SetError", v |-> ErrCaller]>>
      [] name = "raw fail" ->
            <<[op |-> "AddRawBytes", v |-> <<1, 2>>],
              [op |-> "SetError", v |-> ErrCaller]>>
      [] name = "map0" -> <<[op |-> "AddMap", n |-> 0, items |-> << >>]>>
      [] name = "map1" ->
            <<[op |-> "AddMap", n |-> 1,
               items |-> <<[k |-> <<[op |-> "AddUint8", v |-> <<9>>]>>,
                            v |-> <<[op |-> "AddUint8", v |-> <<2>>]>>]>>]>>

\* whether the callback builds a map on the Builder
BuildsMap(name) == name \in {"map0", "map1"}

Uint8Value(n) == [type |-> "uint8", v |-> <<n>>]

EmptyMapValue ==
    [type |-> "map[interface{}]interface{}", isNil |-> FALSE, v |-> << >>]

\* the values the caller hands to Marshal, by name; the two maps are the
\* map {2: 3, 1: {}} in the two orders in which range may yield it
MarshalValue(name) ==
    CASE name = "nil" -> [type |-> "nil"]
      [] name = "bool" -> [type |-> "bool", v |-> TRUE]
      [] name = "bytes" -> [type |-> "[]uint8", v |-> Slice(<<7>>)]
      [] name = "string" -> [type |-> "string", v |-> <<97>>]
      [] name = "array" ->
            [type |-> "[]interface{}", isNil |-> FALSE,
             v |-> <<Uint8Value(1), [type |-> "nil"]>>]
      [] name = "map 2 1" ->
            [type |-> "map[interface{}]interface{}", isNil |-> FALSE,
             v |-> <<[k |-> Uint8Value(2), v |-> Uint8Value(3)],
                     [k |-> Uint8Value(1), v |-> EmptyMapValue]>>]
      [] name = "map 1 2" ->
            [type |-> "map[interface{}]interface{}", isNil |-> FALSE,
             v |-> <<[k |-> Uint8Value(1), v |-> EmptyMapValue],
                     [k |-> Uint8Value(2), v |-> Uint8Value(3)]>>]
      [] name = "failing" ->
            [type |-> "MarshalingValue", v |-> Callback("1"),
             err |-> ErrCaller]
      [] name = "marshaler" ->
            [type |-> "MarshalingValue", v |-> Callback("1"),
             err |-> NoError]

MarshalNames ==
    {"nil", "bool", "bytes", "string", "array", "map 2 1", "map 1 2",
     "failing"}

Init ==
    /\ in \in {[mode |-> m] : m \in SortModes}
    /\ b = NewBuilder(<< >>, in.mode)
    /\ ref = NewBuilder(<< >>, in.mode)
    /\ phase = "ready"
    /\ pending = NoPending
    /\ calls = 0
    /\ lastOp = NoOp

\* the program is running and the caller has calls left
CanCall == b.panic = NoPanic /\ calls < MaxCalls

\* what the model remembers of a call
Ghost(op, nested, pre, idx, searched) ==
    [op |-> op, errBefore |-> b.err, lenBefore |-> Len(b.result),
     nested |-> nested, pre |-> pre, idx |-> idx, searched |-> searched]

\* a call that is not part of building a map leaves bb
Plain(op, bb) ==
    /\ CanCall
    /\ calls < MaxPlainCalls
    /\ pending.left = 0
    /\ b' = bb
    /\ calls' = calls + 1
    /\ lastOp' = Ghost(op, FALSE, b, -1, FALSE)
    /\ pending' = NoPending
    /\ phase' = "ready"
    /\ UNCHANGED <<in, ref>>

CallAddUint8 == Plain("AddUint8", AddUint8(b, <<1>>))

CallAddInt8 == Plain("AddInt8", AddInt8(b, <<255>>))

CallAddBool == Plain("AddBool", AddBool(b, TRUE))

CallAddNil == Plain("AddNil", AddNil(b))

CallAddBytes == Plain("AddBytes", AddBytes(b, Slice(<<7>>)))

CallAddString == Plain("AddString", AddString(b, <<97>>))

CallAddRawBytes == Plain("AddRawBytes", AddRawBytes(b, <<1>>))

CallAddTag == Plain("AddTag", AddTag(b, Uint64Of(1)))

CallAddArray ==
    Plain("AddArray", AddArray(b, Uint64Of(1), Callback("1")))

\* the Builder of addUnknown when fn(b) has returned, before the length
\* is written back
addUnknownBody(bb, t, fn) == Run(addUint8(bb, t, <<0>>), fn)

\* lastOp.pre is the Builder before the length is written back
CallAddBytesUnknownLength ==
    \E fn \in {"none", "raw", "raw fail"} :
        /\ CanCall
        /\ calls < MaxPlainCalls
        /\ pending.left = 0
        /\ b' = AddBytesUnknownLength(b, Callback(fn))
        /\ calls' = calls + 1
        /\ lastOp' = Ghost("AddBytesUnknownLength", FALSE,
                           addUnknownBody(b, cborTypeByteString,
                                          Callback(fn)),
                           -1, FALSE)
        /\ pending' = NoPending
        /\ phase' = "ready"
        /\ UNCHANGED <<in, ref>>

CallMarshal ==
    \E v \in MarshalNames : Plain("Marshal", Marshal(b, MarshalValue(v)))

CallAddValue ==
    \E v \in {"failing", "marshaler"} :
        Plain("AddValue", AddValue(b, MarshalValue(v)))

\* the caller may set the error at any time, between map entries too; the
\* error it hands over is any value of type error, nil included
CallSetError ==
    \E e \in {ErrCaller, NoError} :
        /\ CanCall
        /\ b' = SetError(b, e)
        /\ calls' = calls + 1
        /\ lastOp' = Ghost("SetError", FALSE, b, -1, FALSE)
        /\ phase' = "ready"
        /\ UNCHANGED <<pending, in, ref>>

CallAddMap ==
    \E length \in 0..MaxMapLen :
        /\ CanCall
        /\ calls <= MaxCallsBeforeMap
        /\ pending.left = 0
        /\ b' = AddMap(b, length)
        /\ calls' = calls + 1
        /\ lastOp' = Ghost("AddMap", FALSE, b, -1, FALSE)
        /\ pending' = [left |-> length, start |-> Len(b'.result),
                       done |-> 0, items |-> << >>, entries |-> << >>,
                       before |-> b.result]
        /\ phase' = "ready"
        /\ UNCHANGED <<in, ref>>

\* what the model remembers of a map entry: afterKey is the Builder after
\* the key callback, recorded the Builder before the reorderer runs
RememberEntry(k, v, afterKey, recorded) ==
    LET offset == Len(b.result)
        sorting == /\ recorded.panic = NoPanic
                   /\ recorded.ModeSort # ModeSortNone
        s == IF sorting THEN sortIdx(recorded)
             ELSE [idx |-> -1, ok |-> FALSE]
    IN  /\ lastOp' = Ghost("addMapItem", BuildsMap(k) \/ BuildsMap(v),
                           recorded, s.idx, sorting /\ s.ok)
        /\ pending' =
            [pending EXCEPT
                !.left = @ - 1,
                !.done = @ + 1,
                !.items = Append(@, [k |-> k, v |-> v]),
                !.entries = Append(@,
                    [key |-> SubSeq(afterKey.result, offset + 1,
                                    Len(afterKey.result)),
                     item |-> SubSeq(recorded.result, offset + 1,
                                     Len(recorded.result))])]

\* fn(k, v) for the AddMapItemFunc fn that AddMap returned
CallAddMapItem ==
    \E e \in EntryNames :
        /\ CanCall
        /\ pending.left > 0
        /\ b' = addMapItem(b, Callback(e[1]), Callback(e[2]))
        /\ calls' = calls + 1
        /\ RememberEntry(e[1], e[2], Run(b, Callback(e[1])),
                         addMapItemRecord(b, Callback(e[1]),
                                          Callback(e[2])))
        /\ phase' = "ready"
        /\ UNCHANGED <<in, ref>>

\* the entries of the finished map, added in the order perm to a second
\* Builder that starts from the same buffer
Replayed(perm) ==
    addMapItems(AddMap(NewBuilder(pending.before, in.mode), pending.done),
                [i \in 1..pending.done |->
                    [k |-> Callback(pending.items[perm[i]].k),
                     v |-> Callback(pending.items[perm[i]].v)]])

Replay ==
    \E perm \in Permutations(1..pending.done) :
        /\ b.panic = NoPanic
        /\ b.err = NoError
        /\ lastOp.op = "addMapItem"
        /\ lastOp.errBefore = NoError
        /\ pending.left = 0
        /\ ref' = Replayed(perm)
        /\ phase' = "replayed"
        /\ UNCHANGED <<b, pending, lastOp, in, calls>>

Next ==
    \/ CallAddUint8
    \/ CallAddInt8
    \/ CallAddBool
    \/ CallAddNil
    \/ CallAddBytes
    \/ CallAddString
    \/ CallAddRawBytes
    \/ CallAddTag
    \/ CallAddArray
    \/ CallAddBytesUnknownLength
    \/ CallMarshal
    \/ CallAddValue
    \/ CallSetError
    \/ CallAddMap
    \/ CallAddMapItem
    \/ Replay

Spec == Init /\ [][Next]_vars

(***************************************************************************)
(* The documented order of encoded keys, and the caller's view of a map    *)
(***************************************************************************)
\* x is bytewise lexicographically lower than y
LexLess(x, y) ==
    \E i \in 1..Len(y) :
        /\ i <= Len(x) + 1
        /\ \A j \in 1..(i - 1) : x[j] = y[j]
        /\ (i = Len(x) + 1 \/ x[i] < y[i])

\* x comes strictly before y in the order that ModeSort documents
DocBefore(mode, x, y) ==
    IF mode = ModeSortLengthFirst
    THEN Len(x) < Len(y) \/ (Len(x) = Len(y) /\ LexLess(x, y))
    ELSE LexLess(x, y)

Sorting == in.mode # ModeSortNone

\* the caller's map lies in the buffer as its descriptors say: the first
\* entry starts right after the header, every entry ends where the next
\* starts and the last at the end of the buffer, the entries are the bytes
\* that the callbacks appended, and the keys do not decrease
MapIntact ==
    LET n == pending.done
        off(i) == b.offsets[i].offset
        end(i) == IF i < n THEN off(i + 1) ELSE Len(b.result)
        seg(i) == SubSeq(b.result, off(i) + 1, end(i))
        key(i) == SubSeq(b.result, off(i) + 1,
                         off(i) + b.offsets[i].keyLength)
        same(i, j) == /\ pending.entries[j].item = seg(i)
                      /\ pending.entries[j].key = key(i)
    IN  /\ Len(b.offsets) >= n
        /\ n > 0 => off(1) = pending.start
        /\ \A i \in 1..n : off(i) <= end(i)
        /\ \A i \in 1..n : \E j \in 1..n : same(i, j)
        /\ \A j \in 1..n : \E i \in 1..n : same(i, j)
        /\ \A i \in 1..(n - 1) : ~DocBefore(in.mode, key(i + 1), key(i))

\* a map entry has just completed normally in a sorting mode
EntryCompleted ==
    /\ lastOp.op = "addMapItem"
    /\ Sorting
    /\ b.panic = NoPanic
    /\ b.err = NoError

\* C1: in either sorting mode, after every completed map entry the entries
\* added so far to the current map lie in the buffer in non-decreasing
\* order of their keys under the active comparator, contiguous and
\* gap-free from the byte after the map header to the end of the buffer.
C1_SortedContiguous == EntryCompleted => MapIntact

\* C2: once the error is set, every later public operation completes
\* normally and leaves the length of the buffer unchanged, and Bytes
\* returns the error and no bytes.
C2_StickyError ==
    (lastOp.op # "none" /\ lastOp.errBefore # NoError)
        => /\ b.panic = NoPanic
           /\ Len(b.result) = lastOp.lenBefore
           /\ Bytes(b).isNil
           /\ Bytes(b).err # NoError

\* C3: in a sorting mode, an entry whose key or value callback builds
\* another map on the same Builder completes without a run-time panic,
\* with the entry count of the outer map, and leaves the outer map's
\* entries sorted and contiguous with the inner map's bytes intact.
C3_NestedMap ==
    (lastOp.op = "addMapItem" /\ lastOp.nested /\ Sorting
     /\ lastOp.errBefore = NoError)
        => /\ b.panic = NoPanic
           /\ b.mapSize = pending.done
           /\ MapIntact

\* the keys of the caller's entries are pairwise distinct
DistinctKeys ==
    \A i, j \in 1..pending.done :
        i # j => pending.entries[i].key # pending.entries[j].key

\* C6: for entries whose encoded keys are pairwise distinct, the final
\* buffer of a sorting mode is the same for every order in which the
\* entries are added.
C6_OrderIndependent ==
    (phase = "replayed" /\ Sorting /\ DistinctKeys
     /\ ref.panic = NoPanic)
        => b.result = ref.result

(***************************************************************************)
(* The search of the reorderer, seen from the Builder it ran on            *)
(***************************************************************************)
\* the last call was a map entry whose search ran to its end
Searched == lastOp.op = "addMapItem" /\ lastOp.searched

\* the key of the new entry and the keys of the entries placed before it,
\* as the search read them
NewKey == keyFn(lastOp.pre, lastOp.pre.mapSize - 1)
PlacedKey(i) == keyFn(lastOp.pre, i)
Placed == 0..(lastOp.pre.mapSize - 2)

\* the entries placed before the new one are in the documented order
PlacedSorted ==
    /\ \A i \in Placed : keyFnOK(lastOp.pre, i)
    /\ \A i, j \in Placed :
        i < j => ~DocBefore(in.mode, PlacedKey(j), PlacedKey(i))

\* C7: the comparators order entries as documented: once the reorderer
\* has placed a new entry, the entry before it has a key that comes
\* strictly first in the documented order of the mode (length-first: the
\* shorter key, bytewise among equal lengths; bytewise: the lower key,
\* whatever the lengths) and the entry after it has a key that does not.
C7_DocumentedOrder ==
    (Searched /\ b.panic = NoPanic)
        => LET idx == lastOp.idx
           IN  /\ keyFnOK(b, idx)
               /\ keyFn(b, idx) = NewKey
               /\ idx > 0 =>
                    /\ keyFnOK(b, idx - 1)
                    /\ DocBefore(in.mode, keyFn(b, idx - 1), NewKey)
               /\ idx < b.mapSize - 1 =>
                    /\ keyFnOK(b, idx + 1)
                    /\ ~DocBefore(in.mode, keyFn(b, idx + 1), NewKey)

\* C7's case: in length-first mode the key f6 is added after the key 1818
\* and is placed before it, the shorter key first though it compares higher
C7_Witness ==
    /\ Searched
    /\ in.mode = ModeSortLengthFirst
    /\ lastOp.idx = 0
    /\ NewKey = <<cborNil>>
    /\ PlacedKey(0) = <<24, 24>>
    /\ b.result = <<cborTypeMap + 2, cborNil, 3, 24, 24, 3>>

\* C8 as stated: the keys before the chosen index compare less than or
\* equal to the new key and the keys from it on compare strictly greater,
\* so that an equal key is placed after the entry that has it.  Stated for
\* the entries that C2 and C3 leave alone: no error is set, the entry
\* builds no map and the entries placed before are in sorted order.
C8_EqualKeyAfter ==
    (Searched /\ PlacedSorted /\ lastOp.errBefore = NoError
     /\ ~lastOp.nested)
        => \A i \in Placed :
            IF i < lastOp.idx
            THEN ~DocBefore(in.mode, NewKey, PlacedKey(i))
            ELSE DocBefore(in.mode, NewKey, PlacedKey(i))

\* C8 amended: the key just before the chosen index compares strictly
\* less than the new key and the key at the index does not; when the
\* entries placed before are in sorted order, every key before the index
\* compares strictly less and every key from it on compares greater than
\* or equal, so that an equal key is placed before the entry that has it.
C8_EqualKeyBefore ==
    Searched
        => LET idx == lastOp.idx
           IN  /\ idx \in 0..(lastOp.pre.mapSize - 1)
               /\ idx > 0 => DocBefore(in.mode, PlacedKey(idx - 1), NewKey)
               /\ idx < lastOp.pre.mapSize - 1 =>
                    ~DocBefore(in.mode, PlacedKey(idx), NewKey)
               /\ PlacedSorted =>
                    \A i \in Placed :
                        IF i < idx
                        THEN DocBefore(in.mode, PlacedKey(i), NewKey)
                        ELSE ~DocBefore(in.mode, PlacedKey(i), NewKey)

\* C8's case: the entry 1: nil is added after the entry 1: 3, whose key is
\* the same, and is placed before it
C8_Witness ==
    /\ Searched
    /\ Sorting
    /\ PlacedSorted
    /\ lastOp.idx = 0
    /\ NewKey = <<1>>
    /\ PlacedKey(0) = <<1>>
    /\ b.result = <<cborTypeMap + 2, 1, cborNil, 1, 3>>

(***************************************************************************)
(* The buffer after the first failure                                      *)
(***************************************************************************)
\* the last call set the error while its callback ran: lastOp.pre is the
\* Builder when the callback returned, which for the callbacks of the
\* caller is the Builder when the error was set
FailedInside ==
    /\ lastOp.op \in {"addMapItem", "AddBytesUnknownLength"}
    /\ lastOp.errBefore = NoError
    /\ lastOp.pre.err # NoError
    /\ lastOp.pre.panic = NoPanic

\* C11: when the error is set while a map entry's key or value callback,
\* or the body of AddBytesUnknownLength, is running, the completion of the
\* enclosing operation (the reordering of the entry, the write-back and
\* growth of the length header) leaves the buffer exactly as it was when
\* the error was set.
C11_NoWriteAfterFailure == FailedInside => b.result = lastOp.pre.result

\* C12: once an error has been stored in the Builder it stays stored under
\* every later operation, further SetError and AddValue calls included,
\* and Bytes returns an error from then on.
C12_ErrorStaysStored ==
    [][b.err # NoError => (b'.err # NoError /\ Bytes(b').err # NoError)]_vars

(***************************************************************************)
(* SpecAdd: add on buffers of every length up to the largest int.  The     *)
(* Builder of this specification keeps len(b.result) in the field          *)
(* resultLen instead of the bytes, and the bytes to append are their       *)
(* number.                                                                 *)
(***************************************************************************)
LenSamples ==
    {0, 1, 2, 23, 24, 255, 256, 65535, 65536, 1073741823, 1073741824,
     1073741825, MaxInt - 1, MaxInt}

AddInputs ==
    {[lenResult |-> r, lenBytes |-> n, err |-> e] :
        r \in LenSamples, n \in LenSamples, e \in {NoError, ErrCaller}}

\* Builder.add, on the lengths
addLen(bb, n) ==
    IF bb.panic # NoPanic THEN bb
    ELSE IF bb.err # NoError THEN bb
    ELSE IF SumWraps(bb.resultLen, n)
    THEN [bb EXCEPT !.err = ErrLengthOverflow, !.panic = PanicGrowslice]
    ELSE [bb EXCEPT !.resultLen = @ + n]

InitAdd ==
    /\ in \in AddInputs
    /\ b = [err |-> in.err, resultLen |-> in.lenResult, panic |-> NoPanic]
    /\ ref = b
    /\ phase = "ready"
    /\ pending = NoPending
    /\ calls = 0
    /\ lastOp = NoOp

\* b.add(bytes...) for in.lenBytes bytes
DoAdd ==
    /\ phase = "ready"
    /\ b' = addLen(b, in.lenBytes)
    /\ phase' = "added"
    /\ calls' = calls + 1
    /\ UNCHANGED <<pending, lastOp, in, ref>>

\* a second b.add(bytes...) of the same bytes
DoAddAgain ==
    /\ phase = "added"
    /\ b' = addLen(b, in.lenBytes)
    /\ phase' = "again"
    /\ calls' = calls + 1
    /\ UNCHANGED <<pending, lastOp, in, ref>>

NextAdd ==
    \/ DoAdd
    \/ DoAddAgain

SpecAdd == InitAdd /\ [][NextAdd]_vars

\* the first add of the run met a sum of lengths that wraps
Overflowed ==
    /\ phase \in {"added", "again"}
    /\ in.err = NoError
    /\ SumWraps(in.lenResult, in.lenBytes)

\* C13: when len(result)+len(bytes) wraps, add stores the length-overflow
\* error and appends none of the bytes of the call, and Bytes then returns
\* the error and no bytes.
C13_OverflowAppendsNothing ==
    Overflowed
        => /\ b.panic = NoPanic
           /\ b.err = ErrLengthOverflow
           /\ b.resultLen = in.lenResult
           /\ Bytes(b).isNil
           /\ Bytes(b).err = ErrLengthOverflow

(***************************************************************************)
(* SpecMap: a caller builds maps, one after the other, on a Builder of     *)
(* part_000 or of part_001, and may set the error between two calls.  The  *)
(* callbacks of part_001 entries write scalars, whose code is the same in  *)
(* both revisions; those of part_000 entries may build maps as well.  ref   *)
(* is a second Builder, in ModeSortNone, that receives the same calls;      *)
(* pending.begun is the Builder as AddMap left it and pending.setError     *)
(* tells whether the caller has set the error since.                       *)
(***************************************************************************)
\* the number of calls the caller of SpecMap makes
MaxMapCalls == 5

MapRevisions == {"part_000", "part_001"}

ScalarEntryNames ==
    {<<k, "3">> : k \in {"1", "2", "24", "nil"}}
    \cup {<<"2", "nil">>, <<"1", "fail">>}

MapEntryNames(src) ==
    IF src = "part_000"
    THEN ScalarEntryNames \cup {<<"1", "map0">>, <<"2", "map1">>}
    ELSE ScalarEntryNames

InitMap ==
    /\ in \in {[src |-> s, mode |-> m] : s \in MapRevisions, m \in SortModes}
    /\ b = NewBuilder(<< >>, in.mode)
    /\ ref = NewBuilder(<< >>, ModeSortNone)
    /\ phase = "ready"
    /\ pending = NoPending
    /\ calls = 0
    /\ lastOp = NoOp

CanCallMap == b.panic = NoPanic /\ calls < MaxMapCalls

MapAddMap ==
    \E length \in 0..MaxMapLen :
        /\ CanCallMap
        /\ pending.left = 0
        /\ b' = IF in.src = "part_001" THEN AddMap_p1(b, length)
                ELSE AddMap(b, length)
        /\ calls' = calls + 1
        /\ lastOp' = Ghost("AddMap", FALSE, b, -1, FALSE)
        /\ pending' = [left |-> length, start |-> Len(b'.result),
                       done |-> 0, items |-> << >>, entries |-> << >>,
                       before |-> b.result, begun |-> b',
                       setError |-> FALSE]
        /\ ref' = IF in.src = "part_001" THEN AddMap_p1(ref, length)
                  ELSE AddMap(ref, length)
        /\ phase' = "ready"
        /\ UNCHANGED in

MapAddMapItem ==
    \E e \in MapEntryNames(in.src) :
        /\ CanCallMap
        /\ pending.left > 0
        /\ b' = IF in.src = "part_001"
                THEN AddMapItem_p1(b, Callback(e[1]), Callback(e[2]))
                ELSE addMapItem(b, Callback(e[1]), Callback(e[2]))
        /\ calls' = calls + 1
        /\ RememberEntry(e[1], e[2], Run(b, Callback(e[1])),
                         IF in.src = "part_001"
                         THEN AddMapItemRecord_p1(b, Callback(e[1]),
                                                  Callback(e[2]))
                         ELSE addMapItemRecord(b, Callback(e[1]),
                                               Callback(e[2])))
        /\ ref' = IF in.src = "part_001"
                  THEN AddMapItem_p1(ref, Callback(e[1]), Callback(e[2]))
                  ELSE addMapItem(ref, Callback(e[1]), Callback(e[2]))
        /\ phase' = "ready"
        /\ UNCHANGED in

MapSetError ==
    /\ CanCallMap
    /\ b.err = NoError
    /\ b' = SetError(b, ErrCaller)
    /\ calls' = calls + 1
    /\ lastOp' = Ghost("SetError", FALSE, b, -1, FALSE)
    /\ ref' = SetError(ref, ErrCaller)
    /\ pending' = IF pending.left > 0
                  THEN [pending EXCEPT !.setError = TRUE]
                  ELSE pending
    /\ phase' = "ready"
    /\ UNCHANGED in

NextMap ==
    \/ MapAddMap
    \/ MapAddMapItem
    \/ MapSetError

SpecMap == InitMap /\ [][NextMap]_vars

RECURSIVE ConcatItems(_)
\* the bytes of the entries, in the order in which they were added
ConcatItems(entries) ==
    IF entries = << >> THEN << >>
    ELSE Head(entries).item \o ConcatItems(Tail(entries))

\* C15: in ModeSortNone, completing a map entry moves no byte: the buffer
\* is exactly what the key and value callbacks appended, and the entries
\* of the map lie in the buffer in the order in which they were added.
C15_NoneMovesNothing ==
    (lastOp.op = "addMapItem" /\ in.mode = ModeSortNone
     /\ b.panic = NoPanic)
        => /\ b.result = lastOp.pre.result
           /\ Len(b.result) >= pending.start
           /\ SubSeq(b.result, pending.start + 1, Len(b.result))
                = ConcatItems(pending.entries)

\* in ModeSortNone the entries 2: 3 and 1: 3 lie in the buffer as added
C15_Witness ==
    /\ lastOp.op = "addMapItem"
    /\ in.mode = ModeSortNone
    /\ in.src = "part_001"
    /\ b.panic = NoPanic
    /\ b.result = <<162, 2, 3, 1, 3>>

(***************************************************************************)
(* The length of the buffer                                                *)
(***************************************************************************)
\* C16: across any sequence of operations the length of the buffer never
\* decreases, and the reordering done when a map entry completes leaves
\* the length what it was after the entry's value was written.
C16_LengthConserved ==
    [][/\ Len(b'.result) >= Len(b.result)
       /\ lastOp'.op = "addMapItem"
            => Len(b'.result) = Len(lastOp'.pre.result)]_vars

\* the entry 1: 3, added after 2: 3, has been moved in front of it
C16_Witness ==
    /\ lastOp.op = "addMapItem"
    /\ lastOp.pre.result = <<162, 2, 3, 1, 3>>
    /\ b.result = <<162, 1, 3, 2, 3>>

(***************************************************************************)
(* The descriptor array                                                    *)
(***************************************************************************)
\* no callback of the entries added so far to the caller's map builds a map
NoMapInEntries ==
    \A i \in 1..Len(pending.items) :
        ~BuildsMap(pending.items[i].k) /\ ~BuildsMap(pending.items[i].v)

\* the length the caller declared for its map
Declared == pending.done + pending.left

\* C17: after AddMap(L) the descriptor array has at least L slots and the
\* entry count is 0; while at most L entries are added and no callback of
\* an entry begins another map, the entry count stays within 0..L and
\* every descriptor index that the entry operation and the reordering read
\* or write is inside the descriptor array (no access panics).
C17_DescriptorsInBounds ==
    /\ (lastOp.op = "AddMap" /\ b.panic = NoPanic)
            => /\ Len(b.offsets) >= Declared
               /\ b.mapSize = 0
    /\ (lastOp.op \in {"AddMap", "addMapItem"} /\ NoMapInEntries)
            => /\ b.panic = NoPanic
               /\ b.mapSize = pending.done
               /\ b.mapSize \in 0..Declared
               /\ Len(b.offsets) >= Declared
               /\ lastOp.op = "addMapItem"
                    => /\ lastOp.pre.panic = NoPanic
                       /\ IndexOK(lastOp.pre, lastOp.pre.mapSize - 1)
                       /\ lastOp.searched => IndexOK(lastOp.pre, lastOp.idx)

\* the third entry of a map declared with three entries has been moved to
\* the front, in the revision whose descriptors hold the value's length
C17_Witness ==
    /\ lastOp.op = "addMapItem"
    /\ in.src = "part_001"
    /\ NoMapInEntries
    /\ pending.done = 3
    /\ pending.left = 0
    /\ b.mapSize = 3
    /\ Len(b.offsets) = 3
    /\ lastOp.searched
    /\ lastOp.idx = 0
    /\ b.panic = NoPanic

(***************************************************************************)
(* SpecFloat: AddFloat32 or AddFloat64 applied once to a fresh Builder, in *)
(* every combination of the modes ModeNaN, ModeInf and ModeFloat.  The     *)
(* values are given by the fields of their bits: <<sign, exp, coef>> for a *)
(* float32 and <<sign, exp, hi, lo>> for a float64.                        *)
(***************************************************************************)
\* zeros, powers of two around the limits of float16, values with and
\* without bits below the float16 significand, subnormals, the largest
\* float32, infinities and NaNs
Float32Samples ==
    {<<0, 0, 0>>, <<0, 0, 1>>, <<0, 102, 0>>, <<0, 103, 0>>,
     <<0, 103, 4194304>>, <<0, 112, 0>>, <<0, 112, 8192>>,
     <<0, 112, 4194304>>, <<0, 113, 0>>, <<0, 127, 0>>, <<0, 127, 1>>,
     <<0, 127, 4096>>, <<0, 127, 8192>>, <<0, 127, 4194304>>,
     <<0, 142, 8380416>>, <<0, 142, 8384512>>, <<0, 143, 0>>,
     <<0, 143, 4411392>>, <<0, 254, 8388607>>, <<0, 255, 0>>,
     <<0, 255, 1>>, <<0, 255, 8192>>, <<0, 255, 4194304>>,
     <<0, 255, 4194305>>, <<1, 0, 0>>, <<1, 0, 4194304>>, <<1, 128, 0>>,
     <<1, 255, 0>>, <<1, 255, 4194304>>}

\* the float32 values widened, values that float32 holds only rounded
\* (ties included), values beyond float32, 1.1, 1.0e+300, -4.1, and NaNs
\* whose payload lies in the upper or the lower bits
Float64Samples ==
    {<<0, 0, 0, 0>>, <<0, 0, 0, 1>>, <<0, 873, 0, 0>>, <<0, 874, 0, 0>>,
     <<0, 874, 0, 1>>, <<0, 875, 4194304, 0>>, <<0, 896, 0, 0>>,
     <<0, 897, 0, 0>>, <<0, 998, 0, 0>>, <<0, 999, 0, 0>>,
     <<0, 999, 4194304, 0>>, <<0, 1008, 0, 0>>, <<0, 1008, 8192, 0>>,
     <<0, 1008, 4194304, 0>>, <<0, 1009, 0, 0>>, <<0, 1023, 0, 0>>,
     <<0, 1023, 0, 1>>, <<0, 1023, 0, 268435456>>,
     <<0, 1023, 0, 268435457>>, <<0, 1023, 1, 0>>,
     <<0, 1023, 1, 268435456>>, <<0, 1023, 4096, 0>>,
     <<0, 1023, 8192, 0>>, <<0, 1023, 838860, 429496730>>,
     <<0, 1023, 4194304, 0>>, <<0, 1038, 8380416, 0>>,
     <<0, 1038, 8384512, 0>>, <<0, 1039, 0, 0>>, <<0, 1039, 4411392, 0>>,
     <<0, 1150, 8388607, 0>>, <<0, 1150, 8388607, 268435456>>,
     <<0, 1151, 0, 0>>, <<0, 2019, 4137444, 134247836>>,
     <<0, 2047, 0, 0>>, <<0, 2047, 0, 1>>, <<0, 2047, 1, 0>>,
     <<0, 2047, 4194304, 0>>, <<0, 2047, 4194304, 1>>, <<1, 0, 0, 0>>,
     <<1, 1024, 0, 0>>, <<1, 1025, 209715, 107374182>>, <<1, 2047, 0, 0>>,
     <<1, 2047, 4194304, 0>>}

FloatInputs ==
    {[op |-> "AddFloat32", v |-> x, nan |-> n, inf |-> i, float |-> f] :
        x \in Float32Samples, n \in {ModeNaN7e00, ModeNaNNone},
        i \in {ModeInfFloat16, ModeInfNone},
        f \in {ModeFloat16, ModeFloatNone}}
    \cup {[op |-> "AddFloat64", v |-> x, nan |-> n, inf |-> i, float |-> f] :
            x \in Float64Samples, n \in {ModeNaN7e00, ModeNaNNone},
            i \in {ModeInfFloat16, ModeInfNone},
            f \in {ModeFloat16, ModeFloatNone}}

InitFloat ==
    /\ in \in FloatInputs
    /\ b = [NewBuilder(<< >>, ModeSortLengthFirst) EXCEPT
                !.ModeNaN = in.nan, !.ModeInf = in.inf, !.ModeFloat = in.float]
    /\ ref = NewBuilder(<< >>, ModeSortLengthFirst)
    /\ phase = "ready"
    /\ pending = NoPending
    /\ calls = 0
    /\ lastOp = NoOp

DoAddFloat32 ==
    Applied("AddFloat32",
            AddFloat32(b, Float32(in.v[1], in.v[2], in.v[3])))

DoAddFloat64 ==
    Applied("AddFloat64",
            AddFloat64(b, Float64(in.v[1], in.v[2], in.v[3], in.v[4])))

NextFloat ==
    \/ DoAddFloat32
    \/ DoAddFloat64

SpecFloat == InitFloat /\ [][NextFloat]_vars

\* the value handed over has all exponent bits set
AllOnesExp == in.v[2] = (IF in.op = "AddFloat32" THEN 255 ELSE 2047)

\* the bits of the value below its exponent are all 0
ZeroSignificand == \A i \in 3..Len(in.v) : in.v[i] = 0

InputIsNaN == AllOnesExp /\ ~ZeroSignificand
InputIsInf == AllOnesExp /\ ZeroSignificand

\* C18: with ModeNaN7e00 every NaN handed to AddFloat32 or AddFloat64,
\* whatever its bits and whatever the float-shortening mode, appends
\* exactly f9 7e 00; with ModeInfFloat16, +Infinity appends exactly
\* f9 7c 00 and -Infinity exactly f9 fc 00, from either width.
C18_CanonicalNaNInf ==
    phase = "done"
        => /\ (InputIsNaN /\ in.nan = ModeNaN7e00)
                => b.result = <<249, 126, 0>>
           /\ (InputIsInf /\ in.inf = ModeInfFloat16)
                => b.result = <<249, IF in.v[1] = 0 THEN 124 ELSE 252, 0>>

\* a float64 NaN whose payload is its lowest bit, without float shortening
C18_Witness ==
    /\ phase = "done"
    /\ in.op = "AddFloat64"
    /\ in.v = <<0, 2047, 0, 1>>
    /\ in.nan = ModeNaN7e00
    /\ in.float = ModeFloatNone
    /\ b.result = <<249, 126, 0>>

\* the bytes of the value handed over, at the width it was handed over
OriginalBytes ==
    IF in.op = "AddFloat32"
    THEN <<in.v[1] * 128 + in.v[2] \div 2,
           (in.v[2] % 2) * 128 + in.v[3] \div 65536,
           (in.v[3] \div 256) % 256, in.v[3] % 256>>
    ELSE <<in.v[1] * 128 + in.v[2] \div 16,
           (in.v[2] % 16) * 16 + in.v[3] \div 524288,
           (in.v[3] \div 2048) % 256, (in.v[3] \div 8) % 256,
           (in.v[3] % 8) * 32 + in.v[4] \div 16777216,
           (in.v[4] \div 65536) % 256, (in.v[4] \div 256) % 256,
           in.v[4] % 256>>

\* the float32 or float64 form of the value handed over
OriginalForm ==
    <<IF in.op = "AddFloat32" THEN 250 ELSE 251>> \o OriginalBytes

\* C19: with ModeNaNNone a NaN is emitted at its original width whatever
\* the float-shortening mode (AddFloat32 appends the 5-byte float32 form,
\* AddFloat64 the 9-byte float64 form, never a narrower one); likewise
\* with ModeInfNone an infinity is emitted at its original width.
C19_OriginalWidth ==
    (phase = "done"
     /\ \/ (InputIsNaN /\ in.nan = ModeNaNNone)
        \/ (InputIsInf /\ in.inf = ModeInfNone))
        => b.result = OriginalForm

(***************************************************************************)
(* The value handed over as an integer times a power of two, and the       *)
(* IEEE 754 formats that hold it exactly                                   *)
(***************************************************************************)
InputIsZero == in.v[2] = 0 /\ ZeroSignificand

\* a float64 with a bit below its upper 24 significant bits, or a
\* subnormal float64: more significant bits, or a smaller exponent, than
\* float32 has
BeyondSingle ==
    in.op = "AddFloat64" /\ (in.v[4] # 0 \/ in.v[2] = 0)

\* the upper 24 bits of the significand, the implicit bit with them
Significand ==
    IF in.op = "AddFloat32" /\ in.v[2] = 0 THEN in.v[3]
    ELSE 8388608 + in.v[3]

\* the power of two that the lowest bit of Significand counts
UnitExp ==
    IF in.op = "AddFloat32"
    THEN (IF in.v[2] = 0 THEN -149 ELSE in.v[2] - 150)
    ELSE in.v[2] - 1046

TrailingZeros(n) ==
    CHOOSE t \in 0..24 : n % (2 ^ t) = 0 /\ n % (2 ^ (t + 1)) # 0

BitLen(n) == CHOOSE k \in 1..25 : 2 ^ (k - 1) <= n /\ n < 2 ^ k

\* the value is Odd * 2^OddExp with Odd odd, and 2^TopExp <= value <
\* 2^(TopExp+1)
Odd == Significand \div (2 ^ TrailingZeros(Significand))
OddExp == UnitExp + TrailingZeros(Significand)
TopExp == OddExp + BitLen(Odd) - 1

\* float16 holds 11 significant bits from 2^-24 up to 2^15
InFloat16 ==
    \/ InputIsZero
    \/ ~BeyondSingle /\ Odd < 2048 /\ OddExp >= -24 /\ TopExp <= 15

\* float32 holds 24 significant bits from 2^-149 up to 2^127
InFloat32 ==
    \/ InputIsZero
    \/ ~BeyondSingle /\ OddExp >= -149 /\ TopExp <= 127

\* the float16 that is the value
HalfBytes ==
    LET exp16 == IF InputIsZero \/ TopExp < -14 THEN 0 ELSE TopExp + 15
        coef16 == IF InputIsZero THEN 0
                  ELSE IF TopExp < -14 THEN Odd * 2 ^ (OddExp + 24)
                  ELSE Odd * 2 ^ (11 - BitLen(Odd)) - 1024
    IN  <<in.v[1] * 128 + exp16 * 4 + coef16 \div 256, coef16 % 256>>

\* the float32 that is the value
SingleBytes ==
    LET exp32 == IF InputIsZero \/ TopExp < -126 THEN 0 ELSE TopExp + 127
        coef32 == IF InputIsZero THEN 0
                  ELSE IF TopExp < -126 THEN Odd * 2 ^ (OddExp + 149)
                  ELSE Odd * 2 ^ (24 - BitLen(Odd)) - 8388608
    IN  <<in.v[1] * 128 + exp32 \div 2,
          (exp32 % 2) * 128 + coef32 \div 65536,
          (coef32 \div 256) % 256, coef32 % 256>>

\* the narrowest of the three forms that holds the value exactly
Narrowest ==
    IF InFloat16 THEN <<249>> \o HalfBytes
    ELSE IF InFloat32 THEN <<250>> \o SingleBytes
    ELSE OriginalForm

\* C20: with float shortening (ModeFloat16) a finite value is emitted at
\* the narrowest of the 16-, 32- and 64-bit forms that represents it
\* exactly, and never at a narrower width that changes the value: the
\* bytes appended are that form of the same value.
C20_NarrowestExact ==
    (phase = "done" /\ in.float = ModeFloat16 /\ ~AllOnesExp)
        => b.result = Narrowest

\* float32 100000.0 stays fa 47 c3 50 00
C20_Witness ==
    /\ phase = "done"
    /\ in.op = "AddFloat32"
    /\ in.v = <<0, 143, 4411392>>
    /\ in.float = ModeFloat16
    /\ b.result = <<250, 71, 195, 80, 0>>

(***************************************************************************)
(* SpecWriter: addFloat16, addFloat32 and addFloat64 applied once to a     *)
(* fresh Builder, in each revision.  addFloat16 and addFloat32 have the    *)
(* same text in the three revisions.                                       *)
(***************************************************************************)
Float16Samples ==
    {<<0, 0, 0>>, <<0, 0, 1>>, <<0, 0, 1023>>, <<0, 1, 0>>, <<0, 15, 0>>,
     <<0, 15, 256>>, <<0, 15, 1>>, <<0, 21, 341>>, <<0, 30, 1023>>,
     <<0, 31, 0>>, <<0, 31, 512>>, <<0, 31, 1>>, <<1, 0, 0>>,
     <<1, 16, 682>>, <<1, 31, 0>>, <<1, 31, 1023>>}

WriterRevisions == {"part_000", "part_001", "builder.go"}

WriterInputs ==
    {[src |-> s, op |-> "addFloat16", v |-> x] :
        s \in WriterRevisions, x \in Float16Samples}
    \cup {[src |-> s, op |-> "addFloat32", v |-> x] :
            s \in WriterRevisions, x \in Float32Samples}
    \cup {[src |-> s, op |-> "addFloat64", v |-> x] :
            s \in WriterRevisions,
            x \in Float64Samples \cup {<<0, 1023, 256, 0>>, <<1, 1026, 8388607, 536870911>>}}

InitWriter ==
    /\ in \in WriterInputs
    /\ b = NewBuilder(<< >>, ModeSortLengthFirst)
    /\ ref = NewBuilder(<< >>, ModeSortLengthFirst)
    /\ phase = "ready"
    /\ pending = NoPending
    /\ calls = 0
    /\ lastOp = NoOp

DoWriteFloat16 ==
    Applied("addFloat16", addFloat16(b, Float16(in.v[1], in.v[2], in.v[3])))

DoWriteFloat32 ==
    Applied("addFloat32", addFloat32(b, Float32(in.v[1], in.v[2], in.v[3])))

DoWriteFloat64 ==
    Applied("addFloat64",
            LET v == Float64(in.v[1], in.v[2], in.v[3], in.v[4])
            IN  CASE in.src = "part_001" -> addFloat64_p1(b, v)
                  [] in.src = "builder.go" -> addFloat64_b(b, v)
                  [] OTHER -> addFloat64(b, v))

NextWriter ==
    \/ DoWriteFloat16
    \/ DoWriteFloat32
    \/ DoWriteFloat64

SpecWriter == InitWriter /\ [][NextWriter]_vars

\* the w bits of n, the most significant first
BitsOf(n, w) == [i \in 1..w |-> (n \div (2 ^ (w - i))) % 2]

RECURSIVE BitsOfBytes(_)
BitsOfBytes(bs) ==
    IF bs = << >> THEN << >> ELSE BitsOf(Head(bs), 8) \o BitsOfBytes(Tail(bs))

\* the IEEE bit pattern handed to the writer: sign, exponent, significand
PatternBits ==
    CASE in.op = "addFloat16" ->
           BitsOf(in.v[1], 1) \o BitsOf(in.v[2], 5) \o BitsOf(in.v[3], 10)
      [] in.op = "addFloat32" ->
           BitsOf(in.v[1], 1) \o BitsOf(in.v[2], 8) \o BitsOf(in.v[3], 23)
      [] OTHER ->
           BitsOf(in.v[1], 1) \o BitsOf(in.v[2], 11)
               \o BitsOf(in.v[3], 23) \o BitsOf(in.v[4], 29)

WriterHead ==
    CASE in.op = "addFloat16" -> 249
      [] in.op = "addFloat32" -> 250
      [] OTHER -> 251

\* C21: the fixed-width float writers emit the IEEE bit pattern big-endian
\* and complete: 0xf9, 0xfa or 0xfb, then every bit of the pattern from
\* the most to the least significant, in 2, 4 or 8 bytes.
C21_PatternBigEndian ==
    phase = "done"
        => /\ b.result # << >>
           /\ Head(b.result) = WriterHead
           /\ BitsOfBytes(Tail(b.result)) = PatternBits

(***************************************************************************)
(* SpecRaw: AddRawBytes on a Builder with or without bytes in it, and the  *)
(* function Marshal of the package on a RawBytes value                     *)
(***************************************************************************)
MaxRawLen == 3

RawPayloads ==
    {NilSlice} \cup {Slice(x) : x \in SeqsUpTo({1, 64, 246}, MaxRawLen)}

RawInputs ==
    {[op |-> "AddRawBytes", v |-> x, prefix |-> p] :
        x \in RawPayloads, p \in {<< >>, <<130>>}}
    \cup {[op |-> "Marshal", v |-> x, prefix |-> << >>] : x \in RawPayloads}

NoResult == [bytes |-> << >>, isNil |-> TRUE, err |-> NoError]

\* lastOp.out is what the function Marshal returned
InitRaw ==
    /\ in \in RawInputs
    /\ b = NewBuilder(in.prefix, ModeSortLengthFirst)
    /\ ref = NewBuilder(<< >>, ModeSortLengthFirst)
    /\ phase = "ready"
    /\ pending = NoPending
    /\ calls = 0
    /\ lastOp = [op |-> "none", out |-> NoResult]

DoAddRawBytes == Applied("AddRawBytes", AddRawBytes(b, in.v.data))

DoMarshalRawBytes ==
    /\ phase = "ready"
    /\ in.op = "Marshal"
    /\ b' = Marshal(b, [type |-> "RawBytes", v |-> in.v])
    /\ lastOp' = [op |-> "Marshal",
                  out |-> PkgMarshal([type |-> "RawBytes", v |-> in.v])]
    /\ phase' = "done"
    /\ UNCHANGED <<pending, in, ref, calls>>

NextRaw ==
    \/ DoAddRawBytes
    \/ DoMarshalRawBytes

SpecRaw == InitRaw /\ [][NextRaw]_vars

\* C22: raw-byte passthrough is the identity: AddRawBytes appends exactly
\* the given bytes, with no header and no change, and marshalling a
\* RawBytes value x with a fresh builder returns exactly x and no error.
C22_RawIdentity ==
    /\ (phase = "done" /\ in.op = "AddRawBytes")
          => b.result = in.prefix \o in.v.data /\ b.err = NoError
    /\ (phase = "done" /\ in.op = "Marshal")
          => lastOp.out.bytes = in.v.data /\ lastOp.out.err = NoError

(***************************************************************************)
(* The movement of a newly completed entry to an earlier position, in      *)
(* SpecMap                                                                 *)
(***************************************************************************)
\* the search chose a position before the last and the movement completed
Moved ==
    /\ lastOp.op = "addMapItem"
    /\ lastOp.searched
    /\ lastOp.idx < lastOp.pre.mapSize - 1
    /\ b.panic = NoPanic

\* the bytes of entry i (key and value) as the revision delimits them
ItemOf(bb, i) ==
    IF in.src = "part_001" THEN itemFn_p1(bb, i) ELSE itemFn(bb, i)

\* where the new entry began, and where it was inserted
LastOffset == lastOp.pre.offsets[lastOp.pre.mapSize].offset
NewOffset == lastOp.pre.offsets[lastOp.idx + 1].offset
LastLen == Len(lastOp.pre.result) - LastOffset

AddedInOrder ==
    \A i \in 1..(Len(pending.entries) - 1) :
        DocBefore(in.mode, pending.entries[i].key, pending.entries[i + 1].key)

\* what the calls of the caller's map (AddMap and the entries) have written
SinceMapBegan(bb) ==
    SubSeq(bb.result, Len(pending.before) + 1, Len(bb.result))

\* C24: when the entries of a map are added in strictly increasing order
\* of their encoded keys under the active comparator, every insertion
\* finds the new entry already in last position, no byte and no descriptor
\* is moved, and the buffer is identical to the one ModeSortNone produces
\* for the same calls.
C24_InOrderMovesNothing ==
    (lastOp.op = "addMapItem" /\ Sorting /\ AddedInOrder)
        => /\ b.panic = NoPanic
           /\ lastOp.searched
           /\ lastOp.idx = lastOp.pre.mapSize - 1
           /\ b.result = lastOp.pre.result
           /\ b.offsets = lastOp.pre.offsets
           /\ Len(b.result) = Len(ref.result)
           /\ SinceMapBegan(b) = SinceMapBegan(ref)

(***************************************************************************)
(* SpecLayouts: the same calls on a Builder of part_000 (b), whose         *)
(* descriptors hold offset and keyLength, and on a Builder of part_001     *)
(* (ref), whose descriptors hold valueLength as well                       *)
(***************************************************************************)
\* the number of calls the caller of SpecLayouts makes
MaxLayoutCalls == 5

\* the callbacks as a caller of part_001 writes them: a map is built with
\* b.AddMap and b.AddMapItem
Callback_p1(name) ==
    CASE name = "map0" -> <<[op |-> "AddMap_p1", n |-> 0, items |-> << >>]>>
      [] name = "map1" ->
            <<[op |-> "AddMap_p1", n |-> 1,
               items |-> <<[k |-> <<[op |-> "AddUint8", v |-> <<9>>]>>,
                            v |-> <<[op |-> "AddUint8", v |-> <<2>>]>>]>>]>>
      [] OTHER -> Callback(name)

InitLayouts ==
    /\ in \in {[mode |-> m] : m \in SortModes}
    /\ b = NewBuilder(<< >>, in.mode)
    /\ ref = NewBuilder(<< >>, in.mode)
    /\ phase = "ready"
    /\ pending = NoPending
    /\ calls = 0
    /\ lastOp = NoOp

CanCallLayouts ==
    b.panic = NoPanic /\ ref.panic = NoPanic /\ calls < MaxLayoutCalls

LayoutsAddMap ==
    \E length \in 0..MaxMapLen :
        /\ CanCallLayouts
        /\ pending.left = 0
        /\ b' = AddMap(b, length)
        /\ ref' = AddMap_p1(ref, length)
        /\ calls' = calls + 1
        /\ lastOp' = [op |-> "AddMap"]
        /\ pending' = [NoPending EXCEPT !.left = length]
        /\ UNCHANGED <<in, phase>>

LayoutsAddMapItem ==
    \E e \in MapEntryNames("part_000") :
        /\ CanCallLayouts
        /\ pending.left > 0
        /\ b' = addMapItem(b, Callback(e[1]), Callback(e[2]))
        /\ ref' = AddMapItem_p1(ref, Callback_p1(e[1]), Callback_p1(e[2]))
        /\ calls' = calls + 1
        /\ lastOp' = [op |-> "addMapItem"]
        /\ pending' = [pending EXCEPT !.left = @ - 1, !.done = @ + 1]
        /\ UNCHANGED <<in, phase>>

LayoutsSetError ==
    /\ CanCallLayouts
    /\ b.err = NoError
    /\ b' = SetError(b, ErrCaller)
    /\ ref' = SetError(ref, ErrCaller)
    /\ calls' = calls + 1
    /\ lastOp' = [op |-> "SetError"]
    /\ UNCHANGED <<pending, in, phase>>

NextLayouts ==
    \/ LayoutsAddMap
    \/ LayoutsAddMapItem
    \/ LayoutsSetError

SpecLayouts == InitLayouts /\ [][NextLayouts]_vars

\* C25: the two descriptor layouts are equivalent: run on the same
\* sequence of map entries with the same sort mode, the reorderer that
\* stores valueLength in each descriptor and the one that takes an entry's
\* end from the next descriptor's offset produce, after every entry, the
\* same buffer and the same offsets and key lengths.
C25_LayoutsAgree ==
    /\ b.result = ref.result
    /\ b.panic = ref.panic
    /\ b.err = ref.err
    /\ b.mapSize = ref.mapSize
    /\ Len(b.offsets) = Len(ref.offsets)
    /\ \A i \in 1..Len(b.offsets) :
            /\ b.offsets[i].offset = ref.offsets[i].offset
            /\ b.offsets[i].keyLength = ref.offsets[i].keyLength

\* both reorderers have inserted 2: nil between 1: 3 and 24: 3
C25_Witness ==
    /\ lastOp.op = "addMapItem"
    /\ pending.done = 3
    /\ b.result = <<163, 1, 3, 2, 246, 24, 24, 3>>
    /\ ref.result = <<163, 1, 3, 2, 246, 24, 24, 3>>
    /\ b.offsets[3] = mapItem(5, 2)
    /\ ref.offsets[3] = mapItem_p1(5, 2, 1)

(***************************************************************************)
(* A second map on the same Builder, in SpecMap                            *)
(***************************************************************************)
\* a map has been begun after bytes were written: in SpecMap these bytes
\* are the maps built before it
SecondMap == pending.before # << >> /\ lastOp.op \in {"AddMap", "addMapItem"}

\* the entries of the caller's map added to the Builder that AddMap would
\* have left had the descriptor array been new: no descriptor and no
\* scratch byte of an earlier map
Afresh ==
    LET items == [i \in 1..Len(pending.items) |->
                    [k |-> Callback(pending.items[i].k),
                     v |-> Callback(pending.items[i].v)]]
    IN  IF in.src = "part_001"
        THEN addMapItems_p1(
                [pending.begun EXCEPT
                    !.offsets = [i \in 1..Declared |-> mapItem_p1(0, 0, 0)],
                    !.tmp = << >>], items)
        ELSE addMapItems(
                [pending.begun EXCEPT
                    !.offsets = [i \in 1..Declared |-> mapItem(0, 0)],
                    !.tmp = << >>], items)

\* C26: when a second map is begun on the same Builder after a first map
\* is complete, the entry count restarts at 0, the descriptors left over
\* from the first map never influence where the second map's entries are
\* placed (the Builder places them as it would with a new descriptor
\* array), and reordering the second map changes no byte of the first
\* map, whichever of the two maps declared more entries.
C26_SecondMapIndependent ==
    /\ (SecondMap /\ lastOp.op = "AddMap" /\ b.panic = NoPanic)
            => b.mapSize = 0
    /\ (SecondMap /\ lastOp.op = "addMapItem")
            => SubSeq(b.result, 1, Len(pending.before)) = pending.before
    /\ (SecondMap /\ lastOp.op = "addMapItem" /\ ~pending.setError)
            => /\ b.panic = Afresh.panic
               /\ b.result = Afresh.result
               /\ b.mapSize = Afresh.mapSize
               /\ \A i \in 1..b.mapSize :
                    i <= Len(b.offsets) /\ i <= Len(Afresh.offsets)
                        => b.offsets[i] = Afresh.offsets[i]

(***************************************************************************)
(* SpecDeferred: a caller builds one map on a Builder of part_000; keys    *)
(* and values are integers or byte strings of deferred length, of 2 bytes  *)
(* (the header keeps its length) and of 24 bytes (the header grows by one) *)
(***************************************************************************)
\* the number of entries of the map of SpecDeferred
MaxDeferredLen == 3

DeferredEntryNames ==
    {<<k, v>> : k \in {"1", "ub2", "ub24", "ub24z"}, v \in {"3", "ub24"}}

\* func(b *Builder) { b.AddBytesUnknownLength(func(b *Builder) {
\* b.AddRawBytes(payload) }) }
DeferredBytes(payload) ==
    <<[op |-> "AddBytesUnknownLength",
       fn |-> <<[op |-> "AddRawBytes", v |-> payload]>>]>>

DeferredCallback(name) ==
    CASE name = "ub2" -> DeferredBytes(<<1, 2>>)
      [] name = "ub24" -> DeferredBytes(Ramp(24))
      [] name = "ub24z" -> DeferredBytes(ZeroBytes(24))
      [] OTHER -> Callback(name)

InitDeferred ==
    /\ in \in {[mode |-> m] : m \in SortModes}
    /\ b = NewBuilder(<< >>, in.mode)
    /\ ref = NewBuilder(<< >>, in.mode)
    /\ phase = "ready"
    /\ pending = NoPending
    /\ calls = 0
    /\ lastOp = NoOp

DeferredAddMap ==
    \E length \in 1..MaxDeferredLen :
        /\ calls = 0
        /\ b' = AddMap(b, length)
        /\ calls' = calls + 1
        /\ lastOp' = Ghost("AddMap", FALSE, b, -1, FALSE)
        /\ pending' = [left |-> length, start |-> Len(b'.result),
                       done |-> 0, items |-> << >>, entries |-> << >>,
                       before |-> b.result]
        /\ UNCHANGED <<in, ref, phase>>

DeferredAddMapItem ==
    \E e \in DeferredEntryNames :
        /\ b.panic = NoPanic
        /\ pending.left > 0
        /\ b' = addMapItem(b, DeferredCallback(e[1]), DeferredCallback(e[2]))
        /\ calls' = calls + 1
        /\ RememberEntry(e[1], e[2], Run(b, DeferredCallback(e[1])),
                         addMapItemRecord(b, DeferredCallback(e[1]),
                                          DeferredCallback(e[2])))
        /\ UNCHANGED <<in, ref, phase>>

NextDeferred ==
    \/ DeferredAddMap
    \/ DeferredAddMapItem

SpecDeferred == InitDeferred /\ [][NextDeferred]_vars

\* the encoding of what a callback adds: an integer below 24, or a byte
\* string with its header of one or two bytes and its payload
Encoded(name) ==
    CASE name = "1" -> <<1>>
      [] name = "3" -> <<3>>
      [] name = "ub2" -> <<66, 1, 2>>
      [] name = "ub24" -> <<88, 24>> \o Ramp(24)
      [] name = "ub24z" -> <<88, 24>> \o ZeroBytes(24)

EncodedEntry(e) == Encoded(e.k) \o Encoded(e.v)

\* C27: a deferred-length byte string emitted inside the key or value
\* callback of a sorted map entry has its length header backpatched, and
\* grown if needed, before the entry's span is recorded: the recorded key
\* length and entry extent include the grown header, and the reordering
\* moves the whole entry, so that each descriptor delimits the complete
\* encoding of one entry's key, followed by the complete encoding of its
\* value, header and payload intact and adjacent.
C27_DeferredEntryWhole ==
    lastOp.op = "addMapItem" =>
        LET pre == lastOp.pre
            n == pending.done
            new == pending.items[n]
        IN  /\ b.panic = NoPanic
            /\ pre.mapSize = n
            /\ pre.offsets[n].keyLength = Len(Encoded(new.k))
            /\ pre.offsets[n].offset
                  = Len(pre.result) - Len(EncodedEntry(new))
            /\ keyFn(pre, n - 1) = Encoded(new.k)
            /\ itemFn(pre, n - 1) = EncodedEntry(new)
            /\ b.mapSize = n
            /\ b.offsets[1].offset = pending.start
            /\ \E perm \in Permutations(1..n) :
                    \A i \in 1..n :
                        /\ keyFn(b, i - 1) = Encoded(pending.items[perm[i]].k)
                        /\ itemFn(b, i - 1)
                              = EncodedEntry(pending.items[perm[i]])

\* the entry whose key is the byte string of 24 zeros, with its two-byte
\* header, has been moved in front of the entry whose key is the byte
\* string 1..24
C27_Witness ==
    /\ lastOp.op = "addMapItem"
    /\ in.mode = ModeSortBytewiseLexical
    /\ lastOp.searched
    /\ lastOp.idx = 0
    /\ pending.items = <<[k |-> "ub24", v |-> "3"], [k |-> "ub24z", v |-> "3"]>>
    /\ lastOp.pre.offsets[2] = mapItem(28, 26)
    /\ b.offsets[1] = mapItem(1, 26)
    /\ b.result = <<162, 88, 24>> \o ZeroBytes(24) \o <<3, 88, 24>>
                        \o Ramp(24) \o <<3>>
====
